---- MODULE Spec2Model ----
(***************************************************************************)
(* Model of the testfs overlay engine of mocha-pod (lib/testfs/index.ts):  *)
(* the process-wide lock and lock stack, build / enable / restore /       *)
(* cleanup, the global restore and the leftovers scan, run by a pool of    *)
(* asynchronous callers against one shared filesystem.                     *)
(***************************************************************************)
EXTENDS Integers, Sequences, FiniteSets, TLC

\* ------------------------------------------------------------------ bounds
\* Number of ids nanoid() hands out, i.e. of enable() critical sections.
MaxId == 2
\* Number of writes an actor outside testfs makes (exec('echo ... > file')).
MaxExt == 1
\* Number of faults: file writes of replace() that fail, and bodies still
\* running when the lock's execution timeout elapses.
MaxFaults == 1
\* No directory spec literal has more than MaxLen top-level entries, and no
\* directory in it more than MaxInner.
MaxLen == 3
MaxInner == 2
\* No directory of a literal with virtual-root keys is nested deeper.
MaxDepth == 3

\* ------------------------------------------------------------ the universe
Inst == {"A", "B"}
Tasks == {"t1", "t2"}
SeqTasks == {"t1"}
Paths == {"p1", "p2"}
Ids == 1..MaxId

Absent == "absent"    \* the path does not exist
None == "none"        \* a directory spec has no entry for the path
Orig == "orig"        \* content on disk before any test
Ext == "ext"          \* content written by an outside program

\* Content of the entries of instance i's own directory spec.
W(i) == IF i = "A" THEN "wA" ELSE "wB"

NoFiles == [p \in Paths |-> None]

\* ---------------------------------------------------------------- the state
VARIABLES
    fs,          \* the filesystem under rootdir: path -> content or Absent
    tars,        \* ids whose backup testfs-<id>.tar exists in os.tmpdir()
    tarData,     \* id -> archived entries (path -> content, None if not archived)
    defaults,    \* the global Config: filesystem, keep, cleanup
    instances,   \* i -> what build() closed over: toUpdate, keep, cleanup
    isDisabled,  \* i -> the instance's isDisabled flag
    enabled,     \* i -> id of the instance's current `enabled` object (0: initial)
    handle,      \* id -> what the enabled object closed over: inst, cleanupGlobs
    pre,         \* id -> the filesystem as enable() found it, kept until restored
    overlay,     \* id -> "none", "backed" (archived), "dirty" (files changed),
                 \*       "extracted" (backup extracted), "restored"
    stack,       \* lock stack of enabled ids, most recent last
    nextId,      \* next id nanoid() returns
    lockq,       \* BetterLock: queue of callers, the head holds the lock
    task,        \* caller -> its position in the call it makes, and its locals
    inflight,    \* file writes of a rejected replace() still in flight
    faults,      \* faults so far: failed file writes, bodies the lock timed out
    extCount,    \* number of outside writes so far
    returned,    \* ids of the enabled objects that enable() has resolved with
    tracing,     \* whether callers record stack0, fs0, log and was (see IdleTask)
    root,        \* the directory spec literal handed to dir / flatten / testfs
    conf,        \* the literal of defaults.filesystem that build() starts from
    result,      \* what the call on root returned or threw
    rootdir,     \* opts.rootdir of the instance built from root
    lookup,      \* enable(): the write-plan paths probed, and whether they exist
    touched,     \* the file operations made so far: [op, path]
    processCwd,         \* process.processCwd()
    base,        \* defaults.basedir
    given,       \* the argument f of testfs.from: a string or an object with from
    ref,         \* the FileRef testfs.from returned
    hook         \* mochaHooks.beforeAll: its position, crumbs, and its error

vars == <<fs, tars, tarData, defaults, instances, isDisabled, enabled, handle,
          pre, overlay, stack, nextId, lockq, task, inflight, faults, extCount,
          returned, tracing, root, conf, result, rootdir, lookup, touched,
          processCwd, base, given, ref, hook>>

\* ------------------------------------------------------------------ helpers
Top(s) == s[Len(s)]
Front(s) == SubSeq(s, 1, Len(s) - 1)
RECURSIVE Reverse(_)
Reverse(s) == IF s = <<>> THEN <<>> ELSE Append(Reverse(Tail(s)), Head(s))
Range(s) == {s[k] : k \in 1..Len(s)}

\* fast-glob on a list of patterns: the existing files they match.
fg(f, globs) == {p \in globs : f[p] # Absent}

\* leftovers(): the backup artifacts found in the temp directory.
leftovers == tars

NoSnapshot == [p \in Paths |-> Absent]

\* A caller between two calls; expired says that the lock's execution timeout
\* has given up on the body the caller started. Of its locals, stack0 and fs0 (the lock stack
\* and the filesystem when the call was made), log (the ids whose doRestore the
\* call has run, in that order) and was (for each of them, the filesystem as
\* its enable() found it) are kept for the statements below only.
IdleTask == [pc |-> "idle", op |-> "none", inst |-> "A", arg |-> 0, id |-> 0,
             inDrain |-> FALSE, recover |-> FALSE, expired |-> FALSE,
             pend |-> {},
             kglobs |-> {}, cglobs |-> {}, stack0 |-> <<>>, fs0 |-> NoSnapshot,
             log |-> <<>>, was |-> <<>>, res |-> "none"]

NoHandle == [inst |-> "A", cglobs |-> {}]

\* The positions of a caller inside a critical section of the lock.
BodyPcs == {"e_backup", "e_write", "r_delete", "r_extract", "r_unlink", "r_mark",
            "r_hung"}
InBody(t) == task[t].pc \in BodyPcs

\* build(spec, opts): merge the defaults underneath the instance's own spec and
\* options.
build(spec, keep, cleanup) ==
    [toUpdate |-> [p \in Paths |->
                      IF spec[p] # None THEN spec[p] ELSE defaults.filesystem[p]],
     keep |-> defaults.keep \cup keep,
     cleanup |-> defaults.cleanup \cup cleanup]

PlanPaths(i) == {p \in Paths : instances[i].toUpdate[p] # None}

\* ------------------------------------------------------------ initial state
\* The directory specs, keep lists and cleanup lists instances are built from.
\* The directory spec of instance i that names the paths in ps.
Files(i, ps) == [p \in Paths |-> IF p \in ps THEN W(i) ELSE None]

\* The state after testfs.config(conf) and the two testfs(spec, opts) calls,
\* with conf, spec and opts drawn from the given sets.
InitWith(confs, argsA, argsB, disks, trace) ==
    /\ fs \in disks
    /\ tars = {}
    /\ tarData = [id \in Ids |-> NoFiles]
    /\ defaults \in confs
    /\ \E a \in argsA, b \in argsB :
          instances = [i \in Inst |->
                          IF i = "A" THEN build(a.spec, a.keep, a.cleanup)
                                     ELSE build(b.spec, b.keep, b.cleanup)]
    /\ isDisabled = [i \in Inst |-> TRUE]
    /\ enabled = [i \in Inst |-> 0]
    /\ handle = [id \in Ids |-> NoHandle]
    /\ pre = [id \in Ids |-> NoSnapshot]
    /\ overlay = [id \in Ids |-> "none"]
    /\ stack = <<>>
    /\ nextId = 1
    /\ lockq = <<>>
    /\ task = [t \in Tasks |-> IdleTask]
    /\ inflight = {}
    /\ faults = 0
    /\ extCount = 0
    /\ returned = {}
    /\ tracing = trace

\* --------------------------------------------------------- lock and restore
\* A releaseAll that stops one instance short: `while (stack.length > 1)`.
releaseAll_KeepLast(r) ==
    IF Len(stack) <= 1
    THEN [r EXCEPT !.pc = "done",
                   !.res = IF r.op = "restoreAll" THEN "ok" ELSE "TestFsLockError"]
    ELSE IF isDisabled[handle[Top(stack)].inst]
         THEN [r EXCEPT !.pc = "drain"]
         ELSE [r EXCEPT !.pc = "r_wait", !.id = Top(stack)]

\* releaseAll: one turn of `while (stack.length > 0) await top.restore()`.
\* The restore() of the top either returns at once (its instance is marked
\* disabled) or goes through lock.release, where the top matches its own id.
releaseAll(r) ==
    IF stack = <<>>
    THEN [r EXCEPT !.pc = "done",
                   !.res = IF r.op = "restoreAll" THEN "ok" ELSE "TestFsLockError"]
    ELSE IF isDisabled[handle[Top(stack)].inst]
         THEN [r EXCEPT !.pc = "drain"]
         ELSE [r EXCEPT !.pc = "r_wait", !.id = Top(stack)]

\* What a caller does once a restore() it awaited has resolved.
afterRestore(r) ==
    IF r.inDrain THEN [r EXCEPT !.pc = "drain"]
    ELSE [r EXCEPT !.pc = "done",
                   !.res = IF r.op = "enable" THEN "TestFsAlreadyEnabled" ELSE "ok"]

\* A lock.release that throws on a mismatch without restoring anything.
release_NoDrain(r, id) ==
    IF stack = <<>> THEN [r EXCEPT !.pc = "done", !.res = "AssertionError"]
    ELSE IF Top(stack) # id THEN [r EXCEPT !.pc = "done", !.res = "TestFsLockError"]
    ELSE [r EXCEPT !.pc = "r_wait", !.id = id]

\* lock.release(id, doRestore) up to its first suspension.
release(r, id) ==
    IF stack = <<>> THEN [r EXCEPT !.pc = "done", !.res = "AssertionError"]
    ELSE IF Top(stack) # id THEN releaseAll([r EXCEPT !.inDrain = TRUE])
    ELSE [r EXCEPT !.pc = "r_wait", !.id = id]

\* An initial enabled object whose restore() goes to the lock like any other.
restore_NoPlaceholder(r, id) ==
    IF id # 0 /\ isDisabled[handle[id].inst] THEN afterRestore(r)
    ELSE release(r, id)

\* enabled.restore() of the enabled object with the given id (0: the initial
\* object, whose restore resolves at once).
restore(r, id) ==
    IF id = 0 \/ isDisabled[handle[id].inst] THEN afterRestore(r)
    ELSE release(r, id)

\* The caller continues as r; l.acquire queues it when it asks for the lock.
Continue(t, r) ==
    /\ task' = [task EXCEPT ![t] = r]
    /\ lockq' = IF r.pc \in {"e_wait", "r_wait"} THEN Append(lockq, t) ELSE lockq

Called(op, i, id) ==
    [IdleTask EXCEPT !.op = op, !.inst = i, !.arg = id,
                     !.stack0 = IF tracing THEN stack ELSE @,
                     !.fs0 = IF tracing THEN fs ELSE @]

PendingEnables == Cardinality({t \in Tasks : task[t].pc \in {"e_wait", "e_backup"}})

\* ------------------------------------------------------------------ callers
\* disabled.enable()
CallEnable(t, i) ==
    /\ task[t].pc = "idle"
    /\ IF ~isDisabled[i]
       THEN Continue(t, restore(Called("enable", i, enabled[i]), enabled[i]))
       ELSE /\ nextId + PendingEnables <= MaxId
            /\ Continue(t, [Called("enable", i, 0) EXCEPT !.pc = "e_wait"])
    /\ UNCHANGED <<fs, tars, tarData, defaults, instances, isDisabled, enabled,
                   handle, pre, overlay, stack, nextId, inflight, faults,
                   extCount, returned, tracing, root, conf, result, rootdir,
                   lookup, touched, processCwd, base, given, ref, hook>>

\* enabled.restore() on a handle a caller holds, or disabled.restore(), which
\* forwards to the instance's current enabled object.
CallRestore(t, i, id) ==
    /\ task[t].pc = "idle"
    /\ id = enabled[i] \/ (id \in returned /\ handle[id].inst = i)
    /\ Continue(t, restore(Called("restore", i, id), id))
    /\ UNCHANGED <<fs, tars, tarData, defaults, instances, isDisabled, enabled,
                   handle, pre, overlay, stack, nextId, inflight, faults,
                   extCount, returned, tracing, root, conf, result, rootdir,
                   lookup, touched, processCwd, base, given, ref, hook>>

\* testfs.restore(): the global restore.
CallRestoreAll(t) ==
    /\ task[t].pc = "idle"
    /\ Continue(t, releaseAll([Called("restoreAll", "A", 0) EXCEPT !.inDrain = TRUE]))
    /\ UNCHANGED <<fs, tars, tarData, defaults, instances, isDisabled, enabled,
                   handle, pre, overlay, stack, nextId, inflight, faults,
                   extCount, returned, tracing, root, conf, result, rootdir,
                   lookup, touched, processCwd, base, given, ref, hook>>

\* A cleanup() that expands cleanupGlobs, the list doRestore deletes, instead
\* of the cleanup option.
CallCleanup_RestoreGlobs(t, id) ==
    /\ task[t].pc = "idle"
    /\ id \in returned
    /\ LET toCleanup == fg(fs, handle[id].cglobs)
       IN /\ fs' = [p \in Paths |-> IF p \in toCleanup THEN Absent ELSE fs[p]]
          /\ overlay' = [overlay EXCEPT ![id] =
                            IF toCleanup # {} /\ @ = "backed" THEN "dirty" ELSE @]
    /\ task' = [task EXCEPT ![t] =
                   [Called("cleanup", handle[id].inst, id) EXCEPT !.pc = "done", !.res = "ok"]]
    /\ UNCHANGED <<tars, tarData, defaults, instances, isDisabled, enabled,
                   handle, pre, stack, nextId, lockq, inflight, faults, extCount,
                   returned, tracing, root, conf, result, rootdir, lookup,
                   touched, processCwd, base, given, ref, hook>>

\* enabled.cleanup(): doCleanup deletes what the cleanup option matches.
CallCleanup(t, id) ==
    /\ task[t].pc = "idle"
    /\ id \in returned
    /\ LET toCleanup == fg(fs, instances[handle[id].inst].cleanup)
       IN /\ fs' = [p \in Paths |-> IF p \in toCleanup THEN Absent ELSE fs[p]]
          /\ overlay' = [overlay EXCEPT ![id] =
                            IF toCleanup # {} /\ @ = "backed" THEN "dirty" ELSE @]
    /\ task' = [task EXCEPT ![t] =
                   [Called("cleanup", handle[id].inst, id) EXCEPT !.pc = "done", !.res = "ok"]]
    /\ UNCHANGED <<tars, tarData, defaults, instances, isDisabled, enabled,
                   handle, pre, stack, nextId, lockq, inflight, faults, extCount,
                   returned, tracing, root, conf, result, rootdir, lookup,
                   touched, processCwd, base, given, ref, hook>>

\* A program outside testfs writes or removes a file between two calls.
ExternalWrite(t, p, c) ==
    /\ task[t].pc = "idle"
    /\ extCount < MaxExt
    /\ fs[p] # c
    /\ fs' = [fs EXCEPT ![p] = c]
    /\ extCount' = extCount + 1
    /\ UNCHANGED <<tars, tarData, defaults, instances, isDisabled, enabled,
                   handle, pre, overlay, stack, nextId, lockq, task, inflight,
                   faults, returned, tracing, root, conf, result, rootdir,
                   lookup, touched, processCwd, base, given, ref, hook>>

\* The caller has seen the outcome of its call; the writes a rejected
\* replace() left in flight have settled by the time it goes on.
Return(t) ==
    /\ task[t].pc = "done"
    /\ inflight = {}
    /\ task' = [task EXCEPT ![t] = IdleTask]
    /\ UNCHANGED <<fs, tars, tarData, defaults, instances, isDisabled, enabled,
                   handle, pre, overlay, stack, nextId, lockq, inflight, faults,
                   extCount, returned, tracing, root, conf, result, rootdir,
                   lookup, touched, processCwd, base, given, ref, hook>>

\* -------------------------------------------------------- the enable body
\* An enable body that leaves the missing write-plan paths out of the
\* cleanup globs.
EnProbe_NoMissing(t) ==
    /\ task[t].pc = "e_wait"
    /\ Head(lockq) = t
    /\ LET i == task[t].inst
           cfg == instances[i]
           found == {p \in PlanPaths(i) : fs[p] # Absent} \cup fg(fs, cfg.cleanup)
       IN task' = [task EXCEPT ![t].pc = "e_backup",
                               ![t].kglobs = cfg.keep \cup found,
                               ![t].cglobs = cfg.cleanup]
    /\ UNCHANGED <<fs, tars, tarData, defaults, instances, isDisabled, enabled,
                   handle, pre, overlay, stack, nextId, lockq, inflight, faults,
                   extCount, returned, tracing, root, conf, result, rootdir,
                   lookup, touched, processCwd, base, given, ref, hook>>

\* An enable body that does not add the existing cleanup matches to the
\* keep globs.
EnProbe_NoCleanupLookup(t) ==
    /\ task[t].pc = "e_wait"
    /\ Head(lockq) = t
    /\ LET i == task[t].inst
           cfg == instances[i]
           found == {p \in PlanPaths(i) : fs[p] # Absent}
           missing == {p \in PlanPaths(i) : fs[p] = Absent}
       IN task' = [task EXCEPT ![t].pc = "e_backup",
                               ![t].kglobs = cfg.keep \cup found,
                               ![t].cglobs = cfg.cleanup \cup missing]
    /\ UNCHANGED <<fs, tars, tarData, defaults, instances, isDisabled, enabled,
                   handle, pre, overlay, stack, nextId, lockq, inflight, faults,
                   extCount, returned, tracing, root, conf, result, rootdir,
                   lookup, touched, processCwd, base, given, ref, hook>>

\* Probe the write-plan and the cleanup globs; split into keep and cleanup.
EnProbe(t) ==
    /\ task[t].pc = "e_wait"
    /\ Head(lockq) = t
    /\ LET i == task[t].inst
           cfg == instances[i]
           found == {p \in PlanPaths(i) : fs[p] # Absent} \cup fg(fs, cfg.cleanup)
           missing == {p \in PlanPaths(i) : fs[p] = Absent}
       IN task' = [task EXCEPT ![t].pc = "e_backup",
                               ![t].kglobs = cfg.keep \cup found,
                               ![t].cglobs = cfg.cleanup \cup missing]
    /\ UNCHANGED <<fs, tars, tarData, defaults, instances, isDisabled, enabled,
                   handle, pre, overlay, stack, nextId, lockq, inflight, faults,
                   extCount, returned, tracing, root, conf, result, rootdir,
                   lookup, touched, processCwd, base, given, ref, hook>>

\* An enable body that goes on to write without having created the backup.
EnBackup_NoTar(t) ==
    /\ task[t].pc = "e_backup"
    /\ LET id == nextId
       IN /\ handle' = [handle EXCEPT ![id] =
                           [inst |-> task[t].inst, cglobs |-> task[t].cglobs]]
          /\ pre' = [pre EXCEPT ![id] = fs]
          /\ overlay' = [overlay EXCEPT ![id] = "backed"]
          /\ nextId' = nextId + 1
          /\ task' = [task EXCEPT ![t].pc = "e_write", ![t].id = id,
                                  ![t].kglobs = {}, ![t].cglobs = {},
                                  ![t].pend = PlanPaths(task[t].inst)]
    /\ UNCHANGED <<fs, tars, tarData, defaults, instances, isDisabled, enabled,
                   stack, lockq, inflight, faults, extCount, returned, tracing,
                   root, conf, result, rootdir, lookup, touched, processCwd,
                   base, given, ref, hook>>

\* An enable body that archives the write-plan paths only.
EnBackup_PlanOnly(t) ==
    /\ task[t].pc = "e_backup"
    /\ LET toKeep == fg(fs, task[t].kglobs \cap PlanPaths(task[t].inst))
           id == nextId
       IN /\ tars' = tars \cup {id}
          /\ tarData' = [tarData EXCEPT ![id] =
                            [p \in Paths |-> IF p \in toKeep THEN fs[p] ELSE None]]
          /\ handle' = [handle EXCEPT ![id] =
                           [inst |-> task[t].inst, cglobs |-> task[t].cglobs]]
          /\ pre' = [pre EXCEPT ![id] = fs]
          /\ overlay' = [overlay EXCEPT ![id] = "backed"]
          /\ nextId' = nextId + 1
          /\ task' = [task EXCEPT ![t].pc = "e_write", ![t].id = id,
                                  ![t].kglobs = {}, ![t].cglobs = {},
                                  ![t].pend = PlanPaths(task[t].inst)]
    /\ UNCHANGED <<fs, defaults, instances, isDisabled, enabled, stack, lockq,
                   inflight, faults, extCount, returned, tracing, root, conf,
                   result, rootdir, lookup, touched, processCwd, base, given,
                   ref, hook>>

\* Expand the keep globs and archive the matches into testfs-<id>.tar.
EnBackup(t) ==
    /\ task[t].pc = "e_backup"
    /\ LET toKeep == fg(fs, task[t].kglobs)
           id == nextId
       IN /\ tars' = tars \cup {id}
          /\ tarData' = [tarData EXCEPT ![id] =
                            [p \in Paths |-> IF p \in toKeep THEN fs[p] ELSE None]]
          /\ handle' = [handle EXCEPT ![id] =
                           [inst |-> task[t].inst, cglobs |-> task[t].cglobs]]
          /\ pre' = [pre EXCEPT ![id] = fs]
          /\ overlay' = [overlay EXCEPT ![id] = "backed"]
          /\ nextId' = nextId + 1
          /\ task' = [task EXCEPT ![t].pc = "e_write", ![t].id = id,
                                  ![t].kglobs = {}, ![t].cglobs = {},
                                  ![t].pend = PlanPaths(task[t].inst)]
    /\ UNCHANGED <<fs, defaults, instances, isDisabled, enabled, stack, lockq,
                   inflight, faults, extCount, returned, tracing, root, conf,
                   result, rootdir, lookup, touched, processCwd, base, given,
                   ref, hook>>

\* replace(): one of the file writes issued in parallel completes.
EnWrite(t, p) ==
    /\ task[t].pc = "e_write"
    /\ p \in task[t].pend
    /\ fs' = [fs EXCEPT ![p] = instances[task[t].inst].toUpdate[p]]
    /\ overlay' = [overlay EXCEPT ![task[t].id] = "dirty"]
    /\ task' = [task EXCEPT ![t].pend = @ \ {p}]
    /\ UNCHANGED <<tars, tarData, defaults, instances, isDisabled, enabled,
                   handle, pre, stack, nextId, lockq, inflight, faults, extCount,
                   returned, tracing, root, conf, result, rootdir, lookup,
                   touched, processCwd, base, given, ref, hook>>

\* A replace() failure that is rethrown without the immediate doRestore.
EnWriteFail_NoRestore(t, p, landed) ==
    /\ task[t].pc = "e_write"
    /\ p \in task[t].pend
    /\ faults < MaxFaults
    /\ faults' = faults + 1
    /\ fs' = IF landed THEN [fs EXCEPT ![p] = instances[task[t].inst].toUpdate[p]]
                       ELSE fs
    /\ overlay' = [overlay EXCEPT ![task[t].id] = IF landed THEN "dirty" ELSE @]
    /\ inflight' = inflight \cup
                     {<<q, instances[task[t].inst].toUpdate[q], task[t].id>> :
                         q \in task[t].pend \ {p}}
    /\ lockq' = Tail(lockq)
    /\ task' = [task EXCEPT ![t].pc = "done", ![t].res = "WriteError", ![t].pend = {}]
    /\ UNCHANGED <<tars, tarData, defaults, instances, isDisabled, enabled,
                   handle, pre, stack, nextId, extCount, returned, tracing, root,
                   conf, result, rootdir, lookup, touched, processCwd, base,
                   given, ref, hook>>

\* replace(): one file write fails (before or after its content landed);
\* Promise.all rejects at once, the sibling writes stay in flight, and the
\* enable body starts doRestore.
EnWriteFail(t, p, landed) ==
    /\ task[t].pc = "e_write"
    /\ p \in task[t].pend
    /\ faults < MaxFaults
    /\ faults' = faults + 1
    /\ fs' = IF landed THEN [fs EXCEPT ![p] = instances[task[t].inst].toUpdate[p]]
                       ELSE fs
    /\ overlay' = [overlay EXCEPT ![task[t].id] = IF landed THEN "dirty" ELSE @]
    /\ inflight' = inflight \cup
                     {<<q, instances[task[t].inst].toUpdate[q], task[t].id>> :
                         q \in task[t].pend \ {p}}
    /\ task' = [task EXCEPT ![t].pc = "r_delete", ![t].recover = TRUE, ![t].pend = {}]
    /\ UNCHANGED <<tars, tarData, defaults, instances, isDisabled, enabled,
                   handle, pre, stack, nextId, lockq, extCount, returned,
                   tracing, root, conf, result, rootdir, lookup, touched,
                   processCwd, base, given, ref, hook>>

\* A write left in flight by a rejected replace() lands.
InflightWrite(w) ==
    /\ w \in inflight
    /\ fs' = [fs EXCEPT ![w[1]] = w[2]]
    /\ overlay' = [overlay EXCEPT ![w[3]] = IF @ = "backed" THEN "dirty" ELSE @]
    /\ inflight' = inflight \ {w}
    /\ UNCHANGED <<tars, tarData, defaults, instances, isDisabled, enabled,
                   handle, pre, stack, nextId, lockq, task, faults, extCount,
                   returned, tracing, root, conf, result, rootdir, lookup,
                   touched, processCwd, base, given, ref, hook>>

\* A write left in flight by a rejected replace() fails as well.
InflightFail(w) ==
    /\ w \in inflight
    /\ inflight' = inflight \ {w}
    /\ UNCHANGED <<fs, tars, tarData, defaults, instances, isDisabled, enabled,
                   handle, pre, overlay, stack, nextId, lockq, task, faults,
                   extCount, returned, tracing, root, conf, result, rootdir,
                   lookup, touched, processCwd, base, given, ref, hook>>

\* All writes done: publish the enabled object, mark the instance enabled and
\* leave the critical section.
EnFinish(t) ==
    /\ task[t].pc = "e_write"
    /\ task[t].pend = {}
    /\ enabled' = [enabled EXCEPT ![task[t].inst] = task[t].id]
    /\ isDisabled' = [isDisabled EXCEPT ![task[t].inst] = FALSE]
    /\ lockq' = IF task[t].expired THEN lockq ELSE Tail(lockq)
    /\ task' = [task EXCEPT ![t].pc = IF task[t].expired THEN "done" ELSE "e_push",
                            ![t].res = IF task[t].expired THEN "TimeoutError" ELSE @]
    /\ UNCHANGED <<fs, tars, tarData, defaults, instances, handle, pre, overlay,
                   stack, nextId, inflight, faults, extCount, returned, tracing,
                   root, conf, result, rootdir, lookup, touched, processCwd,
                   base, given, ref, hook>>

\* lock.acquire after l.acquire resolved: push the instance, resolve enable().
EnPush(t) ==
    /\ task[t].pc = "e_push"
    /\ stack' = Append(stack, task[t].id)
    /\ returned' = returned \cup {task[t].id}
    /\ task' = [task EXCEPT ![t].pc = "done", ![t].res = "ok"]
    /\ UNCHANGED <<fs, tars, tarData, defaults, instances, isDisabled, enabled,
                   handle, pre, overlay, nextId, lockq, inflight, faults,
                   extCount, tracing, root, conf, result, rootdir, lookup,
                   touched, processCwd, base, given, ref, hook>>

\* ------------------------------------------------------- the restore body
\* A doRestore that deletes nothing before extracting.
RsDelete_NoCleanup(t) ==
    /\ \/ task[t].pc = "r_wait" /\ Head(lockq) = t
       \/ task[t].pc = "r_delete"
    /\ task' = [task EXCEPT ![t].pc = "r_extract"]
    /\ UNCHANGED <<fs, tars, tarData, defaults, instances, isDisabled, enabled,
                   handle, pre, overlay, stack, nextId, lockq, inflight, faults,
                   extCount, returned, tracing, root, conf, result, rootdir,
                   lookup, touched, processCwd, base, given, ref, hook>>

\* A doRestore that marks the instance disabled first, before it deletes and
\* extracts.
RsDelete_MarkFirst(t) ==
    /\ \/ task[t].pc = "r_wait" /\ Head(lockq) = t
       \/ task[t].pc = "r_delete"
    /\ LET toCleanup == fg(fs, handle[task[t].id].cglobs)
       IN /\ fs' = [p \in Paths |-> IF p \in toCleanup THEN Absent ELSE fs[p]]
          /\ overlay' = [overlay EXCEPT ![task[t].id] =
                            IF toCleanup # {} /\ @ = "backed" THEN "dirty" ELSE @]
    /\ isDisabled' = [isDisabled EXCEPT ![handle[task[t].id].inst] = TRUE]
    /\ task' = [task EXCEPT ![t].pc = "r_extract"]
    /\ UNCHANGED <<tars, tarData, defaults, instances, enabled, handle, pre,
                   stack, nextId, lockq, inflight, faults, extCount, returned,
                   tracing, root, conf, result, rootdir, lookup, touched,
                   processCwd, base, given, ref, hook>>

\* doRestore: expand the cleanup globs and delete the matches.
RsDelete(t) ==
    /\ \/ task[t].pc = "r_wait" /\ Head(lockq) = t
       \/ task[t].pc = "r_delete"
    /\ LET toCleanup == fg(fs, handle[task[t].id].cglobs)
       IN /\ fs' = [p \in Paths |-> IF p \in toCleanup THEN Absent ELSE fs[p]]
          /\ overlay' = [overlay EXCEPT ![task[t].id] =
                            IF toCleanup # {} /\ @ = "backed" THEN "dirty" ELSE @]
    /\ task' = [task EXCEPT ![t].pc = "r_extract"]
    /\ UNCHANGED <<tars, tarData, defaults, instances, isDisabled, enabled,
                   handle, pre, stack, nextId, lockq, inflight, faults, extCount,
                   returned, tracing, root, conf, result, rootdir, lookup,
                   touched, processCwd, base, given, ref, hook>>

\* doRestore: extract the backup over rootdir.
RsExtract(t) ==
    /\ task[t].pc = "r_extract"
    /\ task[t].id \in tars
    /\ fs' = [p \in Paths |-> IF tarData[task[t].id][p] # None
                              THEN tarData[task[t].id][p] ELSE fs[p]]
    /\ overlay' = [overlay EXCEPT ![task[t].id] = "extracted"]
    /\ task' = [task EXCEPT ![t].pc = "r_unlink"]
    /\ UNCHANGED <<tars, tarData, defaults, instances, isDisabled, enabled,
                   handle, pre, stack, nextId, lockq, inflight, faults, extCount,
                   returned, tracing, root, conf, result, rootdir, lookup,
                   touched, processCwd, base, given, ref, hook>>

\* doRestore: the backup is gone, the read stream errors and 'finish' never
\* comes, so the promise never settles.
RsHang(t) ==
    /\ task[t].pc = "r_extract"
    /\ task[t].id \notin tars
    /\ task' = [task EXCEPT ![t].pc = IF task[t].expired THEN "done" ELSE "r_hung",
                            ![t].res = IF task[t].expired THEN "TimeoutError" ELSE @]
    /\ UNCHANGED <<fs, tars, tarData, defaults, instances, isDisabled, enabled,
                   handle, pre, overlay, stack, nextId, lockq, inflight, faults,
                   extCount, returned, tracing, root, conf, result, rootdir,
                   lookup, touched, processCwd, base, given, ref, hook>>

\* doRestore: remove the backup file.
RsUnlink(t) ==
    /\ task[t].pc = "r_unlink"
    /\ tars' = tars \ {task[t].id}
    /\ tarData' = [tarData EXCEPT ![task[t].id] = NoFiles]
    /\ task' = [task EXCEPT ![t].pc = "r_mark"]
    /\ UNCHANGED <<fs, defaults, instances, isDisabled, enabled, handle, pre,
                   overlay, stack, nextId, lockq, inflight, faults, extCount,
                   returned, tracing, root, conf, result, rootdir, lookup,
                   touched, processCwd, base, given, ref, hook>>

\* A doRestore that does not mark the instance disabled.
RsMark_NoDisable(t) ==
    /\ task[t].pc = "r_mark"
    /\ pre' = [pre EXCEPT ![task[t].id] = NoSnapshot]
    /\ overlay' = [overlay EXCEPT ![task[t].id] = "restored"]
    /\ lockq' = IF task[t].expired THEN lockq ELSE Tail(lockq)
    /\ task' = [task EXCEPT ![t].pc = IF task[t].recover \/ task[t].expired
                                      THEN "done" ELSE "r_pop",
                            ![t].res = IF task[t].expired THEN "TimeoutError"
                                       ELSE IF task[t].recover THEN "WriteError"
                                       ELSE @,
                            ![t].log = IF tracing THEN Append(@, task[t].id) ELSE @,
                            ![t].was = IF tracing THEN Append(@, pre[task[t].id])
                                       ELSE @]
    /\ UNCHANGED <<fs, tars, tarData, defaults, instances, isDisabled, enabled,
                   handle, stack, nextId, inflight, faults, extCount, returned,
                   tracing, root, conf, result, rootdir, lookup, touched,
                   processCwd, base, given, ref, hook>>

\* doRestore: mark the instance disabled and leave the critical section; a
\* doRestore run by a failed enable() rethrows the write error instead.
RsMark(t) ==
    /\ task[t].pc = "r_mark"
    /\ isDisabled' = [isDisabled EXCEPT ![handle[task[t].id].inst] = TRUE]
    /\ pre' = [pre EXCEPT ![task[t].id] = NoSnapshot]
    /\ overlay' = [overlay EXCEPT ![task[t].id] = "restored"]
    /\ lockq' = IF task[t].expired THEN lockq ELSE Tail(lockq)
    /\ task' = [task EXCEPT ![t].pc = IF task[t].recover \/ task[t].expired
                                      THEN "done" ELSE "r_pop",
                            ![t].res = IF task[t].expired THEN "TimeoutError"
                                       ELSE IF task[t].recover THEN "WriteError"
                                       ELSE @,
                            ![t].log = IF tracing THEN Append(@, task[t].id) ELSE @,
                            ![t].was = IF tracing THEN Append(@, pre[task[t].id])
                                       ELSE @]
    /\ UNCHANGED <<fs, tars, tarData, defaults, instances, enabled, handle,
                   stack, nextId, inflight, faults, extCount, returned, tracing,
                   root, conf, result, rootdir, lookup, touched, processCwd,
                   base, given, ref, hook>>

\* A lock.release that forgets to pop the stack.
RsPop_NoPop(t) ==
    /\ task[t].pc = "r_pop"
    /\ task' = [task EXCEPT ![t] = afterRestore(task[t])]
    /\ UNCHANGED <<fs, tars, tarData, defaults, instances, isDisabled, enabled,
                   handle, pre, overlay, stack, nextId, lockq, inflight, faults,
                   extCount, returned, tracing, root, conf, result, rootdir,
                   lookup, touched, processCwd, base, given, ref, hook>>

\* lock.release after l.acquire resolved: pop the stack, resolve restore().
RsPop(t) ==
    /\ task[t].pc = "r_pop"
    /\ stack' = IF stack = <<>> THEN stack ELSE Front(stack)
    /\ task' = [task EXCEPT ![t] = afterRestore(task[t])]
    /\ UNCHANGED <<fs, tars, tarData, defaults, instances, isDisabled, enabled,
                   handle, pre, overlay, nextId, lockq, inflight, faults,
                   extCount, returned, tracing, root, conf, result, rootdir,
                   lookup, touched, processCwd, base, given, ref, hook>>

\* releaseAll: the next turn of the loop.
Drain(t) ==
    /\ task[t].pc = "drain"
    /\ Continue(t, releaseAll(task[t]))
    /\ UNCHANGED <<fs, tars, tarData, defaults, instances, isDisabled, enabled,
                   handle, pre, overlay, stack, nextId, inflight, faults,
                   extCount, returned, tracing, root, conf, result, rootdir,
                   lookup, touched, processCwd, base, given, ref, hook>>

\* BetterLock's execution_timeout elapses while a body is still at work: the
\* lock goes to the next in line and l.acquire rejects, but nothing stops the
\* body, which runs to its end. The caller's rejection is recorded when the
\* body ends.
Expire(t) ==
    /\ task[t].pc \in BodyPcs \ {"r_hung"}
    /\ ~task[t].expired
    /\ faults < MaxFaults
    /\ faults' = faults + 1
    /\ lockq' = Tail(lockq)
    /\ task' = [task EXCEPT ![t].expired = TRUE]
    /\ UNCHANGED <<fs, tars, tarData, defaults, instances, isDisabled, enabled,
                   handle, pre, overlay, stack, nextId, inflight, extCount,
                   returned, tracing, root, conf, result, rootdir, lookup,
                   touched, processCwd, base, given, ref, hook>>

\* BetterLock's execution_timeout: a body that never settles loses the lock
\* and its l.acquire rejects.
Timeout(t) ==
    /\ task[t].pc = "r_hung"
    /\ lockq' = Tail(lockq)
    /\ task' = [task EXCEPT ![t].pc = "done", ![t].res = "TimeoutError"]
    /\ UNCHANGED <<fs, tars, tarData, defaults, instances, isDisabled, enabled,
                   handle, pre, overlay, stack, nextId, inflight, faults,
                   extCount, returned, tracing, root, conf, result, rootdir,
                   lookup, touched, processCwd, base, given, ref, hook>>

\* ------------------------------------------------- utils.ts: directory specs
\* A path or an object key is the sequence of its segments between
\* separators: 'a/a' is <<"a", "a">>, './a' is <<".", "a">>, '/a' is
\* <<"", "a">>, 'a/' is <<"a", "">> and '/' is <<"", "">>.
Names == {"1", "a"}
\* The names that are canonical array indices: an object lists such keys
\* before all others, whatever the order they were assigned in.
Indices == {"1"}
\* The order localeCompare gives the names.
Collate == <<"1", "a">>
Rank(n) == CHOOSE r \in 1..Len(Collate) : Collate[r] = n

\* A file with contents c, and a directory with the entries e; an entry is
\* [k |-> key, v |-> file or directory], and an object is the sequence of its
\* entries in the order Object.keys lists them.
File(c) == [isDir |-> FALSE, c |-> c, e |-> <<>>]
Directory(e) == [isDir |-> TRUE, c |-> <<>>, e |-> e]
isDirectory(x) == x.isDir

Has(o, k) == \E n \in 1..Len(o) : o[n].k = k
Get(o, k) == o[CHOOSE n \in 1..Len(o) : o[n].k = k].v
IsIndex(k) == Len(k) = 1 /\ k[1] \in Indices

\* o[k] = v on an ordinary object: an existing key keeps its place, a new
\* array index goes among the indices in ascending order, any other new key
\* goes last.
Assign(o, k, v) ==
    IF Has(o, k)
    THEN [n \in 1..Len(o) |-> IF o[n].k = k THEN [k |-> k, v |-> v] ELSE o[n]]
    ELSE IF IsIndex(k)
    THEN LET m == Cardinality({n \in 1..Len(o) :
                      IsIndex(o[n].k) /\ Rank(o[n].k[1]) < Rank(k[1])})
         IN SubSeq(o, 1, m) \o <<[k |-> k, v |-> v]>> \o SubSeq(o, m + 1, Len(o))
    ELSE Append(o, [k |-> k, v |-> v])

\* { ...o, ...p }
RECURSIVE Spread(_, _)
Spread(o, p) ==
    IF p = <<>> THEN o ELSE Spread(Assign(o, Head(p).k, Head(p).v), Tail(p))

\* The object a literal evaluates to, the literal being the sequence of its
\* entries as written.
RECURSIVE Object(_)
Object(lit) ==
    IF lit = <<>> THEN <<>>
    ELSE LET last == lit[Len(lit)]
         IN Assign(Object(Front(lit)), last.k,
                   IF isDirectory(last.v) THEN Directory(Object(last.v.e))
                   ELSE last.v)

\* path.resolve(from, location), without the leading separator.
RECURSIVE resolveFrom(_, _)
resolveFrom(from, location) ==
    IF location = <<>> THEN from
    ELSE LET seg == Head(location)
         IN resolveFrom(IF seg \in {"", "."} THEN from
                        ELSE IF seg = ".." THEN Front(from)
                        ELSE Append(from, seg),
                        Tail(location))
resolve(parent, location) ==
    IF location # <<>> /\ Head(location) = ""
    THEN resolveFrom(<<>>, location)
    ELSE resolveFrom(parent, location)
\* path.relative('/', path.resolve('/', location)).split(path.sep); <<>> stands
\* for [''].
relPath(location) == resolveFrom(<<>>, location)

\* One step of the reduce of normalize: group by the first path element.
groupBy(normalized, location, contents) ==
    IF location = <<>> THEN Spread(normalized, contents.e)
    ELSE LET basedir == <<Head(location)>>
             rest == Tail(location)
             current == Get(normalized, basedir)
         IN IF Has(normalized, basedir) /\ isDirectory(current)
            THEN IF rest = <<>>
                 THEN IF isDirectory(contents)
                      THEN Assign(normalized, basedir,
                                  Directory(Spread(current.e, contents.e)))
                      ELSE Assign(normalized, basedir, contents)
                 ELSE Assign(normalized, basedir,
                             Directory(Assign(current.e, rest, contents)))
            ELSE Assign(normalized, basedir,
                        IF rest # <<>>
                        THEN Directory(<<[k |-> rest, v |-> contents]>>)
                        ELSE contents)

RECURSIVE grouped(_, _)
grouped(normalized, child) ==
    IF child = <<>> THEN normalized
    ELSE grouped(groupBy(normalized, relPath(Head(child).k), Head(child).v),
                 Tail(child))

\* normalize(child): [ok |-> FALSE] when it throws DirectoryIsInvalid.
RECURSIVE normalize(_)
normalize(child) ==
    LET invalid == \E n \in 1..Len(child) :
                      relPath(child[n].k) = <<>> /\ ~isDirectory(child[n].v)
        g == grouped(<<>>, child)
        sub == [n \in 1..Len(g) |->
                   IF isDirectory(g[n].v) THEN normalize(g[n].v.e)
                   ELSE [ok |-> TRUE, e |-> <<>>]]
    IN IF invalid \/ \E n \in 1..Len(g) : ~sub[n].ok
       THEN [ok |-> FALSE, e |-> <<>>]
       ELSE [ok |-> TRUE,
             e |-> [n \in 1..Len(g) |->
                      [k |-> g[n].k,
                       v |-> IF isDirectory(g[n].v) THEN Directory(sub[n].e)
                             ELSE g[n].v]]]

dir(r) == normalize(r)

\* a.localeCompare(b) < 0 for two resolved paths.
RECURSIVE Before(_, _)
Before(a, b) ==
    IF b = <<>> THEN FALSE
    ELSE IF a = <<>> THEN TRUE
    ELSE IF Head(a) # Head(b) THEN Rank(Head(a)) < Rank(Head(b))
    ELSE Before(Tail(a), Tail(b))

\* Array.prototype.sort by file name; entries of the same name keep their order.
RECURSIVE sort(_)
sort(list) ==
    IF list = <<>> THEN <<>>
    ELSE LET sorted == sort(Front(list))
             x == list[Len(list)]
             m == Cardinality({n \in 1..Len(sorted) : ~Before(x.k, sorted[n].k)})
         IN SubSeq(sorted, 1, m) \o <<x>> \o SubSeq(sorted, m + 1, Len(sorted))

fileNames(r) == SelectSeq(r, LAMBDA x : ~isDirectory(x.v))
dirNames(r) == SelectSeq(r, LAMBDA x : isDirectory(x.v))

RECURSIVE flatList(_, _)
RECURSIVE flatDirs(_, _)
flatList(r, parent) ==
    sort([n \in 1..Len(fileNames(r)) |->
             [k |-> resolve(parent, fileNames(r)[n].k), v |-> fileNames(r)[n].v]]
         \o flatDirs(dirNames(r), parent))
flatDirs(ds, parent) ==
    IF ds = <<>> THEN <<>>
    ELSE flatList(Head(ds).v.e, resolve(parent, Head(ds).k))
         \o flatDirs(Tail(ds), parent)

\* flatten(root): the keys are the absolute paths, <<"">> \o path.
RECURSIVE collect(_, _)
collect(res, list) ==
    IF list = <<>> THEN res
    ELSE collect(Assign(res, <<"">> \o Head(list).k, Head(list).v), Tail(list))
flatten(r) ==
    LET n == normalize(r)
    IN IF n.ok THEN [ok |-> TRUE, e |-> collect(<<>>, flatList(n.e, <<>>))]
       ELSE n

\* The write-plan build() computes from defaults.filesystem and spec.
toUpdate(filesystem, spec) ==
    LET defaultSpec == flatten(filesystem)
    IN IF defaultSpec.ok THEN flatten(Spread(defaultSpec.e, spec))
       ELSE defaultSpec

\* path.isAbsolute(p)
isAbsolute(p) == p # <<>> /\ Head(p) = ""
\* fileRef(x, dirname): the string 'p' is [form |-> "string", from |-> p], the
\* object { from: 'p', ... } is [form |-> "object", from |-> p].
fileRef(x, dirname) ==
    IF x.form = "string"
    THEN [form |-> "object",
          from |-> IF ~isAbsolute(x.from) THEN <<"">> \o resolve(dirname, x.from)
                   ELSE x.from]
    ELSE x

NoResult == [op |-> "none", ok |-> TRUE, e |-> <<>>]
NoRef == [form |-> "none", from |-> <<>>]
Returned(op, r) == [op |-> op, ok |-> r.ok, e |-> r.e]

\* dir(root)
CallDir ==
    /\ result.op = "none"
    /\ result' = Returned("dir", dir(Object(root)))
    /\ UNCHANGED <<fs, tars, tarData, defaults, instances, isDisabled, enabled,
                   handle, pre, overlay, stack, nextId, lockq, task, inflight,
                   faults, extCount, returned, tracing, root, conf, rootdir,
                   lookup, touched, processCwd, base, given, ref, hook>>

\* flatten(root)
CallFlatten ==
    /\ result.op = "none"
    /\ result' = Returned("flatten", flatten(Object(root)))
    /\ UNCHANGED <<fs, tars, tarData, defaults, instances, isDisabled, enabled,
                   handle, pre, overlay, stack, nextId, lockq, task, inflight,
                   faults, extCount, returned, tracing, root, conf, rootdir,
                   lookup, touched, processCwd, base, given, ref, hook>>

\* testfs(root) under testfs.config({ filesystem: conf })
CallBuild ==
    /\ result.op = "none"
    /\ result' = Returned("build", toUpdate(Object(conf), Object(root)))
    /\ UNCHANGED <<fs, tars, tarData, defaults, instances, isDisabled, enabled,
                   handle, pre, overlay, stack, nextId, lockq, task, inflight,
                   faults, extCount, returned, tracing, root, conf, rootdir,
                   lookup, touched, processCwd, base, given, ref, hook>>

\* ------------------------------------------------- mochaHooks (attach/hooks)
\* config(conf): { ...defaults, ...conf }, partial.set being the keys the
\* argument has.
config(partial) ==
    [k \in DOMAIN defaults |->
        IF k \in partial.set THEN partial.to[k] ELSE defaults[k]]

\* beforeAll that goes on to configure testfs whatever leftovers() returns.
HookLeftovers_Ignore ==
    /\ hook.pc = "leftovers"
    /\ hook' = [hook EXCEPT !.pc = "config", !.crumbs = leftovers]
    /\ UNCHANGED <<fs, tars, tarData, defaults, instances, isDisabled, enabled,
                   handle, pre, overlay, stack, nextId, lockq, task, inflight,
                   faults, extCount, returned, tracing, root, conf, result,
                   rootdir, lookup, touched, processCwd, base, given, ref>>

\* beforeAll: the check that the tests run in a container.
HookContainer ==
    /\ hook.pc = "start"
    /\ \/ hook' = [hook EXCEPT !.pc = "leftovers"]
       \/ hook' = [hook EXCEPT !.pc = "failed", !.error = "NotContainerized"]
    /\ UNCHANGED <<fs, tars, tarData, defaults, instances, isDisabled, enabled,
                   handle, pre, overlay, stack, nextId, lockq, task, inflight,
                   faults, extCount, returned, tracing, root, conf, result,
                   rootdir, lookup, touched, processCwd, base, given, ref>>

\* beforeAll: crumbs = await testfs.leftovers(), and the throw if any.
HookLeftovers ==
    /\ hook.pc = "leftovers"
    /\ hook' = IF leftovers # {}
               THEN [hook EXCEPT !.pc = "failed", !.crumbs = leftovers,
                                 !.error = "FoundLeftovers"]
               ELSE [hook EXCEPT !.pc = "config", !.crumbs = leftovers]
    /\ UNCHANGED <<fs, tars, tarData, defaults, instances, isDisabled, enabled,
                   handle, pre, overlay, stack, nextId, lockq, task, inflight,
                   faults, extCount, returned, tracing, root, conf, result,
                   rootdir, lookup, touched, processCwd, base, given, ref>>

\* beforeAll: testfs.config({ basedir: config.basedir, ...config.testfs })
\* with the configuration Config() read.
HookConfig(partial, dirname) ==
    /\ hook.pc = "config"
    /\ defaults' = config(partial)
    /\ base' = dirname
    /\ hook' = [hook EXCEPT !.pc = "done"]
    /\ UNCHANGED <<fs, tars, tarData, instances, isDisabled, enabled, handle,
                   pre, overlay, stack, nextId, lockq, task, inflight, faults,
                   extCount, returned, tracing, root, conf, result, rootdir,
                   lookup, touched, processCwd, given, ref>>

\* ------------------------------------------------ enable() under a rootdir
\* The path computations of enable() and of the doRestore it builds, for an
\* instance built with opts.rootdir: every file operation is recorded in
\* touched with the absolute path it is given.
RootDirs == {<<>>, <<"r">>}
\* path.join(parent, filename): filename is taken relative to parent even when
\* it starts with a separator.
join(parent, filename) == resolveFrom(parent, filename)
\* fg(globs, { cwd }) for patterns that are paths of existing files, as the
\* resolved paths of the matches: an absolute pattern matches that path, any
\* other pattern the path beneath cwd.
fgIn(globs, cwd) == {resolve(cwd, g) : g \in globs}
Touch(op, ps) == touched \cup {[op |-> op, path |-> p] : p \in ps}
\* testfs.from(f)
CallFrom ==
    /\ given # NoRef
    /\ ref = NoRef
    /\ ref' = fileRef(given, base)
    /\ UNCHANGED <<fs, tars, tarData, defaults, instances, isDisabled, enabled,
                   handle, pre, overlay, stack, nextId, lockq, task, inflight,
                   faults, extCount, returned, tracing, root, conf, result,
                   rootdir, lookup, touched, processCwd, base, given, hook>>

\* replace() reading the file a reference names: fileRef(file) with its
\* default base directory process.cwd(), then fs.readFile(from), which takes
\* a relative path from process.cwd().
ReadRef ==
    /\ ref # NoRef
    /\ touched = {}
    /\ touched' = Touch("readFile", {resolve(processCwd, fileRef(ref, processCwd).from)})
    /\ UNCHANGED <<fs, tars, tarData, defaults, instances, isDisabled, enabled,
                   handle, pre, overlay, stack, nextId, lockq, task, inflight,
                   faults, extCount, returned, tracing, root, conf, result,
                   rootdir, lookup, processCwd, base, given, ref, hook>>

PlanKeys == {result.e[n].k : n \in 1..Len(result.e)}

\* enable(): probe every path of the write-plan (part_007:162-177); which of
\* them exist is up to the disk.
EnableLookup ==
    /\ result.op = "none"
    /\ result' = Returned("lookup", toUpdate(Object(conf), Object(root)))
    /\ result'.ok
    /\ \E existing \in SUBSET PlanKeys' :
          lookup' = {[filename |-> f, exists |-> f \in existing] : f \in PlanKeys'}
    /\ touched' = Touch("access", {resolve(rootdir, f) : f \in PlanKeys'})
    /\ UNCHANGED <<fs, tars, tarData, defaults, instances, isDisabled, enabled,
                   handle, pre, overlay, stack, nextId, lockq, task, inflight,
                   faults, extCount, returned, tracing, root, conf, rootdir,
                   processCwd, base, given, ref, hook>>

\* enable(): pack the existing paths, tar.pack(rootdir, { entries }) reading
\* each entry at rootdir joined with its path relative to rootdir, which is the
\* path fg returned.
EnablePack ==
    /\ result.op = "lookup"
    /\ LET keepGlobs == {l.filename : l \in {x \in lookup : x.exists}}
           toKeep == fgIn(keepGlobs, rootdir)
       IN touched' = Touch("pack", toKeep)
    /\ result' = [result EXCEPT !.op = "packed"]
    /\ UNCHANGED <<fs, tars, tarData, defaults, instances, isDisabled, enabled,
                   handle, pre, overlay, stack, nextId, lockq, task, inflight,
                   faults, extCount, returned, tracing, root, conf, rootdir,
                   lookup, processCwd, base, given, ref, hook>>

\* A replace() that goes on to the writes without creating any directory.
EnableMkdir_None ==
    /\ result.op = "packed"
    /\ result' = [result EXCEPT !.op = "dirs"]
    /\ UNCHANGED <<fs, tars, tarData, defaults, instances, isDisabled, enabled,
                   handle, pre, overlay, stack, nextId, lockq, task, inflight,
                   faults, extCount, returned, tracing, root, conf, rootdir,
                   lookup, touched, processCwd, base, given, ref, hook>>

\* enable(): replace(toUpdate), with parent left at its default '/': the
\* directories of the files are created first, fs.mkdir(path.join(parent,
\* dirname), { recursive: true }) for every dirname other than '/'.
EnableMkdir ==
    /\ result.op = "packed"
    /\ touched' = Touch("mkdir", {Front(join(<<>>, k)) :
                                    k \in {x \in PlanKeys : Len(join(<<>>, x)) > 1}})
    /\ result' = [result EXCEPT !.op = "dirs"]
    /\ UNCHANGED <<fs, tars, tarData, defaults, instances, isDisabled, enabled,
                   handle, pre, overlay, stack, nextId, lockq, task, inflight,
                   faults, extCount, returned, tracing, root, conf, rootdir,
                   lookup, processCwd, base, given, ref, hook>>

\* enable(): replace(toUpdate), the writes of the files, once every mkdir
\* has settled.
EnableReplace ==
    /\ result.op = "dirs"
    /\ touched' = Touch("write", {join(<<>>, k) : k \in PlanKeys})
    /\ result' = [result EXCEPT !.op = "replaced"]
    /\ UNCHANGED <<fs, tars, tarData, defaults, instances, isDisabled, enabled,
                   handle, pre, overlay, stack, nextId, lockq, task, inflight,
                   faults, extCount, returned, tracing, root, conf, rootdir,
                   lookup, processCwd, base, given, ref, hook>>

\* doRestore: unlink what the cleanup globs match.
RestoreDelete ==
    /\ result.op = "replaced"
    /\ LET cleanupGlobs == {l.filename : l \in {x \in lookup : ~x.exists}}
           toCleanup == fgIn(cleanupGlobs, rootdir)
       IN touched' = Touch("unlink", toCleanup)
    /\ result' = [result EXCEPT !.op = "restored"]
    /\ UNCHANGED <<fs, tars, tarData, defaults, instances, isDisabled, enabled,
                   handle, pre, overlay, stack, nextId, lockq, task, inflight,
                   faults, extCount, returned, tracing, root, conf, rootdir,
                   lookup, processCwd, base, given, ref, hook>>

\* --------------------------------------------------------- specifications
ConcStep(t) ==
    \/ \E i \in Inst : CallEnable(t, i)
    \/ \E i \in Inst : \E id \in 0..MaxId : CallRestore(t, i, id)
    \/ CallRestoreAll(t)
    \/ \E id \in Ids : CallCleanup(t, id)
    \/ Return(t)
    \/ EnProbe(t)
    \/ EnBackup(t)
    \/ \E p \in Paths : EnWrite(t, p)
    \/ \E p \in Paths : \E landed \in BOOLEAN : EnWriteFail(t, p, landed)
    \/ EnFinish(t)
    \/ EnPush(t)
    \/ RsDelete(t)
    \/ RsExtract(t)
    \/ RsUnlink(t)
    \/ RsMark(t)
    \/ RsPop(t)
    \/ Drain(t)

Step(t) ==
    \/ ConcStep(t)
    \/ \E p \in Paths : \E c \in {Ext, Absent} : ExternalWrite(t, p, c)

NoConf == [filesystem |-> NoFiles, keep |-> {}, cleanup |-> {}]
Disks(c1, c2) == {[p \in Paths |-> IF p = "p1" THEN x ELSE y] : x \in c1, y \in c2}

\* No call of dir, flatten or testfs on a literal is modelled.
IdleHook == [pc |-> "start", crumbs |-> {}, error |-> "none"]
NoFrom ==
    /\ processCwd = <<>> /\ base = <<>> /\ given = NoRef /\ ref = NoRef
    /\ hook = IdleHook
NoCall ==
    /\ root = <<>> /\ conf = <<>> /\ result = NoResult
    /\ rootdir = <<>> /\ lookup = {} /\ touched = {}
    /\ NoFrom

\* Callers that await every call before making the next one.
InitSeq ==
    /\ InitWith({NoConf, [NoConf EXCEPT !.keep = {"p2"}]},
             {[spec |-> Files("A", ps), keep |-> {}, cleanup |-> c] :
                 ps \in {{"p1"}, {"p1", "p2"}}, c \in {{}, {"p2"}}},
             {[spec |-> Files("B", ps), keep |-> k, cleanup |-> {}] :
                 ps \in {{"p1"}, {"p2"}}, k \in {{}, {"p1"}}},
             Disks({Absent, Orig}, {Absent, Orig}), TRUE)
    /\ NoCall
NextSeq ==
    \/ \E t \in SeqTasks : Step(t)
    \/ \E w \in inflight : InflightWrite(w)
    \/ \E w \in inflight : InflightFail(w)
SpecSeq == InitSeq /\ [][NextSeq]_vars

\* Two callers whose calls overlap.
Init ==
    /\ InitWith({NoConf},
             {[spec |-> Files("A", {"p1", "p2"}), keep |-> {}, cleanup |-> {}]},
             {[spec |-> Files("B", {"p1"}), keep |-> {}, cleanup |-> {"p2"}]},
             Disks({Absent, Orig}, {Orig}), FALSE)
    /\ NoCall
Next ==
    \/ \E t \in Tasks : ConcStep(t)
    \/ \E t \in Tasks : RsHang(t)
    \/ \E t \in Tasks : Timeout(t)
    \/ \E t \in Tasks : Expire(t)
    \/ \E w \in inflight : InflightWrite(w)
    \/ \E w \in inflight : InflightFail(w)
Spec == Init /\ [][Next]_vars

\* Two callers whose calls overlap, with the continuations of an awaited
\* l.acquire run as the event loop runs them: the push or pop that follows a
\* resolved l.acquire is a microtask, so it runs before any file operation of
\* another caller completes; only the synchronous start of another call, or
\* the continuation of another caller, can come in between.
Pending == \E u \in Tasks : task[u].pc \in {"e_push", "r_pop"}
NextPrompt ==
    \/ \E t \in Tasks : EnPush(t)
    \/ \E t \in Tasks : RsPop(t)
    \/ \E t \in Tasks : \E i \in Inst : CallEnable(t, i)
    \/ \E t \in Tasks : \E i \in Inst : \E id \in 0..MaxId : CallRestore(t, i, id)
    \/ \E t \in Tasks : CallRestoreAll(t)
    \/ \E t \in Tasks : Return(t)
    \/ \E t \in Tasks : Drain(t)
    \/ ~Pending /\ \E t \in Tasks : \E id \in Ids : CallCleanup(t, id)
    \/ ~Pending /\ \E t \in Tasks : EnProbe(t)
    \/ ~Pending /\ \E t \in Tasks : EnBackup(t)
    \/ ~Pending /\ \E t \in Tasks : \E p \in Paths : EnWrite(t, p)
    \/ ~Pending /\ \E t \in Tasks : \E p \in Paths : \E landed \in BOOLEAN :
                      EnWriteFail(t, p, landed)
    \/ ~Pending /\ \E t \in Tasks : EnFinish(t)
    \/ ~Pending /\ \E t \in Tasks : RsDelete(t)
    \/ ~Pending /\ \E t \in Tasks : RsExtract(t)
    \/ ~Pending /\ \E t \in Tasks : RsUnlink(t)
    \/ ~Pending /\ \E t \in Tasks : RsMark(t)
    \/ ~Pending /\ \E t \in Tasks : RsHang(t)
    \/ ~Pending /\ \E t \in Tasks : Timeout(t)
    \/ ~Pending /\ \E t \in Tasks : Expire(t)
    \/ ~Pending /\ \E w \in inflight : InflightWrite(w)
    \/ ~Pending /\ \E w \in inflight : InflightFail(w)
SpecPrompt == Init /\ [][NextPrompt]_vars

\* What the event loop does for a caller without any further call: the
\* continuation of a settled await, the next file operation of a body that
\* holds the lock, the lock's timer for a body that never settles.
Settle(t) ==
    \/ EnPush(t)
    \/ RsPop(t)
    \/ Drain(t)
    \/ ~Pending /\ EnProbe(t)
    \/ ~Pending /\ EnBackup(t)
    \/ ~Pending /\ \E p \in Paths : EnWrite(t, p)
    \/ ~Pending /\ EnFinish(t)
    \/ ~Pending /\ RsDelete(t)
    \/ ~Pending /\ RsExtract(t)
    \/ ~Pending /\ RsUnlink(t)
    \/ ~Pending /\ RsMark(t)
    \/ ~Pending /\ RsHang(t)
    \/ ~Pending /\ Timeout(t)

\* The same callers under an event loop that runs every continuation that is
\* ready and completes every file operation that was started.
SpecLive == Init /\ [][NextPrompt]_vars /\ \A t \in Tasks : WF_vars(Settle(t))

\* File references: a source path of each spelling, in both input forms,
\* under each working directory, base directory and rootdir.
Sources == {<<"d">>, <<".", "d">>, <<"..", "d">>, <<"d", "e">>,
            <<"", "d">>, <<"", "d", "e">>}
Dirs == {<<>>, <<"w">>, <<"b">>}
InitFrom ==
    /\ InitWith({NoConf},
                {[spec |-> NoFiles, keep |-> {}, cleanup |-> {}]},
                {[spec |-> NoFiles, keep |-> {}, cleanup |-> {}]},
                Disks({Absent}, {Absent}), FALSE)
    /\ root = <<>> /\ conf = <<>> /\ result = NoResult
    /\ rootdir \in RootDirs /\ lookup = {} /\ touched = {}
    /\ processCwd \in Dirs
    /\ base \in Dirs
    /\ given \in [form : {"string", "object"}, from : Sources]
    /\ ref = NoRef
    /\ hook = IdleHook
NextFrom ==
    \/ CallFrom
    \/ ReadRef
SpecFrom == InitFrom /\ [][NextFrom]_vars

\* The root hooks of a mocha run: the disk and the backups an earlier run may
\* have left, and the configuration Config() reads.
HookConfs ==
    {[set |-> s, to |-> [filesystem |-> Files("A", {"p1"}), keep |-> k,
                         cleanup |-> c]] :
        s \in SUBSET {"filesystem", "keep", "cleanup"},
        k \in {{}, {"p1"}}, c \in {{}, {"p2"}}}
InitHooks ==
    /\ fs \in Disks({Absent, Orig}, {Absent, Orig})
    /\ tars \in SUBSET Ids
    /\ tarData = [id \in Ids |-> NoFiles]
    /\ defaults = NoConf
    /\ instances = [i \in Inst |-> build(NoFiles, {}, {})]
    /\ isDisabled = [i \in Inst |-> TRUE]
    /\ enabled = [i \in Inst |-> 0]
    /\ handle = [id \in Ids |-> NoHandle]
    /\ pre = [id \in Ids |-> NoSnapshot]
    /\ overlay = [id \in Ids |-> "none"]
    /\ stack = <<>>
    /\ nextId = 1
    /\ lockq = <<>>
    /\ task = [t \in Tasks |-> IdleTask]
    /\ inflight = {}
    /\ faults = 0
    /\ extCount = 0
    /\ returned = {}
    /\ tracing = FALSE
    /\ NoCall
NextHooks ==
    \/ HookContainer
    \/ HookLeftovers
    \/ \E partial \in HookConfs, dirname \in Dirs :
          HookConfig(partial, dirname)
SpecHooks == InitHooks /\ [][NextHooks]_vars

\* Directory spec literals: up to MaxLen top-level entries whose values are
\* files or directories of up to MaxInner files.  The contents of a file is
\* the position of its entry in the literal, <<n>> or <<n, m>>; the file of
\* defaults.filesystem has contents <<0, 1>>.
TopKeys == {<<"a">>, <<"", "a">>, <<".", "a">>, <<"a", "">>, <<"a", "a">>,
            <<"", "a", "a">>, <<"1">>, <<".", "1">>, <<"", "">>}
InnerKeys == {<<"a">>, <<".", "a">>}
ConfKeys == {<<"", "a">>, <<"", "a", "a">>, <<"", "1">>}
KeyLists(keys, max) ==
    UNION {{ks \in [1..n -> keys] : \A x, y \in 1..n : ks[x] = ks[y] => x = y} :
           n \in 0..max}
\* The shape of an entry's value: a file, or the keys of a directory of files.
FileShape == << <<"file">> >>
Shapes == {FileShape} \cup KeyLists(InnerKeys, MaxInner)
Lit(ks, sh) ==
    [n \in 1..Len(ks) |->
        [k |-> ks[n],
         v |-> IF sh[n] = FileShape THEN File(<<n>>)
               ELSE Directory([m \in 1..Len(sh[n]) |->
                        [k |-> sh[n][m], v |-> File(<<n, m>>)]])]]
IsLit(r, max) ==
    \E ks \in KeyLists(TopKeys, max) \ {<<>>} :
        \E sh \in [1..Len(ks) -> Shapes] : r = Lit(ks, sh)
ConfLits == {<<[k |-> c, v |-> File(<<0, 1>>)]>> : c \in ConfKeys}

InitDir ==
    /\ InitWith({NoConf},
                {[spec |-> NoFiles, keep |-> {}, cleanup |-> {}]},
                {[spec |-> NoFiles, keep |-> {}, cleanup |-> {}]},
                Disks({Absent}, {Absent}), FALSE)
    /\ \/ conf = <<>> /\ IsLit(root, MaxLen)
       \/ conf \in ConfLits /\ IsLit(root, MaxLen - 1)
    /\ result = NoResult
    /\ rootdir = <<>> /\ lookup = {} /\ touched = {}
    /\ NoFrom
NextDir ==
    \/ CallDir
    \/ CallFlatten
    \/ CallBuild
SpecDir == InitDir /\ [][NextDir]_vars

\* enable() and restore() of an instance built with a rootdir, on bounded
\* literals.
InitRoot ==
    /\ InitWith({NoConf},
                {[spec |-> NoFiles, keep |-> {}, cleanup |-> {}]},
                {[spec |-> NoFiles, keep |-> {}, cleanup |-> {}]},
                Disks({Absent}, {Absent}), FALSE)
    /\ conf = <<>>
    /\ IsLit(root, MaxLen - 1)
    /\ result = NoResult
    /\ rootdir \in RootDirs
    /\ lookup = {}
    /\ touched = {}
    /\ NoFrom
NextRoot ==
    \/ EnableLookup
    \/ EnablePack
    \/ EnableMkdir
    \/ EnableReplace
    \/ RestoreDelete
SpecRoot == InitRoot /\ [][NextRoot]_vars

\* Directory spec literals with keys that resolve to the virtual root: one
\* top-level entry over directories nested up to MaxDepth deep, each with up
\* to MaxInner entries.  Tree(d) are the literals before their files get
\* their positions as contents.
RootKeys == {<<".">>, <<".", "..", ".">>, <<"a">>}
RECURSIVE Tree(_)
Tree(d) ==
    IF d = 0 THEN {<<>>}
    ELSE LET vals == {File(<<>>)} \cup {Directory(t) : t \in Tree(d - 1)}
         IN UNION {{[n \in 1..Len(ks) |-> [k |-> ks[n], v |-> vs[n]]] :
                       vs \in [1..Len(ks) -> vals]} :
                   ks \in KeyLists(RootKeys, MaxInner)}
RECURSIVE Label(_, _)
Label(lit, pos) ==
    [n \in 1..Len(lit) |->
        [k |-> lit[n].k,
         v |-> IF isDirectory(lit[n].v)
               THEN Directory(Label(lit[n].v.e, Append(pos, n)))
               ELSE File(Append(pos, n))]]

InitMerge ==
    /\ InitWith({NoConf},
                {[spec |-> NoFiles, keep |-> {}, cleanup |-> {}]},
                {[spec |-> NoFiles, keep |-> {}, cleanup |-> {}]},
                Disks({Absent}, {Absent}), FALSE)
    /\ conf = <<>>
    /\ \/ root = <<>>
       \/ \E k \in RootKeys :
             \E v \in {File(<<>>)} \cup {Directory(t) : t \in Tree(MaxDepth - 1)} :
                root = Label(<<[k |-> k, v |-> v]>>, <<>>)
    /\ result = NoResult
    /\ rootdir = <<>> /\ lookup = {} /\ touched = {}
    /\ NoFrom
NextMerge ==
    \/ CallDir
    \/ CallFlatten
    \/ CallBuild
SpecMerge == InitMerge /\ [][NextMerge]_vars

\* ------------------------------------------------------------ statements
\* The caller t has just seen its call `op` settle.
Done(t, op) == task[t].pc = "done" /\ task[t].op = op

\* A restore() that resolved after running the doRestore of its own handle.
Restored(t) ==
    /\ Done(t, "restore")
    /\ task[t].res = "ok"
    /\ task[t].log = <<task[t].arg>>

\* C1: round trip. After an enable() and the restore() of its handle, every
\* path of the instance's write-plan is as enable() found it: absent if it
\* was absent, with its original content if it existed.
C1_RoundTrip ==
    \A t \in Tasks :
        Restored(t) =>
            \A p \in PlanPaths(task[t].inst) : fs[p] = task[t].was[1][p]

\* C1 witness: a restore() has resolved for a write-plan with one path that
\* did not exist before enable() and one that did.
C1_Witness ==
    \E t \in Tasks :
        /\ Restored(t)
        /\ \E p, q \in PlanPaths(task[t].inst) :
              /\ task[t].was[1][p] = Absent /\ fs[p] = Absent
              /\ task[t].was[1][q] = Orig /\ fs[q] = Orig

\* A restore() of a handle that is on the lock stack but not on top of it.
OutOfOrder(t) ==
    /\ Done(t, "restore")
    /\ task[t].arg \in Range(task[t].stack0)
    /\ task[t].arg # Top(task[t].stack0)

\* C2: restoring out of order rejects with the lock-ordering error after the
\* whole stack was restored from top to bottom: the stack is empty, every
\* stacked instance is disabled and has no backup left, and every path of
\* their write-plans is in a state found by the enable() of that instance or
\* of one stacked below it.
C2_OutOfOrderDrains ==
    \A t \in Tasks :
        OutOfOrder(t) =>
            /\ task[t].res = "TestFsLockError"
            /\ stack = <<>>
            /\ task[t].log = Reverse(task[t].stack0)
            /\ \A k \in 1..Len(task[t].log) :
                  LET id == task[t].log[k] IN
                  /\ id \notin tars
                  /\ isDisabled[handle[id].inst]
                  /\ \A p \in PlanPaths(handle[id].inst) :
                        \E j \in k..Len(task[t].log) : fs[p] = task[t].was[j][p]

\* C2 witness: with two instances stacked, the restore() of the older one has
\* been rejected with the lock-ordering error.
C2_Witness ==
    \E t \in Tasks :
        /\ OutOfOrder(t)
        /\ Len(task[t].stack0) = 2
        /\ task[t].res = "TestFsLockError"
        /\ handle[task[t].stack0[1]].inst # handle[task[t].stack0[2]].inst

\* A restore() of the handle on top of the lock stack.
InOrder(t) ==
    /\ Done(t, "restore")
    /\ task[t].stack0 # <<>>
    /\ task[t].arg = Top(task[t].stack0)

C4_OneBodyAtATime ==
    \A t, u \in Tasks : InBody(t) /\ InBody(u) => t = u

\* C5: once restore() has succeeded on a handle, every later restore() on
\* that handle resolves and changes neither the filesystem nor the lock stack.
C5_RestoreIdempotent ==
    \A t \in Tasks :
        /\ Done(t, "restore")
        /\ task[t].arg \in returned
        /\ overlay[task[t].arg] = "restored"
        /\ task[t].arg \notin Range(task[t].log)
        => /\ task[t].res = "ok"
           /\ stack = task[t].stack0
           /\ fs = task[t].fs0

\* C6: enable() on an instance that is enabled rejects with the
\* already-enabled error, whatever else is enabled, after the instance's
\* overlay was restored: off the stack, backup deleted, write-plan undone.
C6_ReenableRejects ==
    \A t \in Tasks :
        Done(t, "enable") /\ task[t].arg # 0 =>
            /\ task[t].res = "TestFsAlreadyEnabled"
            /\ task[t].arg \notin Range(stack)
            /\ task[t].arg \notin tars
            /\ overlay[task[t].arg] = "restored"

\* C7: when the global restore resolves the stack is empty and every instance
\* that was on it has been restored, the most recently enabled first; with an
\* empty stack nothing is restored and the filesystem is untouched.
C7_GlobalRestoreDrains ==
    \A t \in Tasks :
        Done(t, "restoreAll") =>
            /\ task[t].res = "ok"
            /\ stack = <<>>
            /\ task[t].log = Reverse(task[t].stack0)
            /\ \A id \in Range(task[t].stack0) :
                  /\ overlay[id] = "restored"
                  /\ isDisabled[handle[id].inst]
                  /\ id \notin tars
            /\ task[t].stack0 = <<>> => fs = task[t].fs0

\* C7 witness: the global restore has resolved after draining two instances.
C7_Witness ==
    \E t \in Tasks :
        /\ Done(t, "restoreAll")
        /\ Len(task[t].stack0) = 2
        /\ Len(task[t].log) = 2

\* C8 as stated: while an instance has changed the filesystem and its
\* restore has not completed, its backup is among the leftovers.
C8_BackupUntilRestored ==
    \A id \in Ids : overlay[id] \in {"dirty", "extracted"} => id \in leftovers

\* C8 as amended: while an instance has changed the filesystem and its
\* restore has not yet extracted the backup, its backup is among the
\* leftovers.
C8_BackupUntilExtracted ==
    \A id \in Ids : overlay[id] = "dirty" => id \in leftovers

\* C8 witness: a restore body has deleted the cleanup set of an instance that
\* had written files and is about to extract its backup.
C8_Witness ==
    \E t \in Tasks :
        /\ task[t].pc = "r_extract"
        /\ overlay[task[t].id] = "dirty"
        /\ task[t].id \in leftovers

\* C9: a file that exists at enable() and matches a keep glob (option or
\* global default) has its enable()-time content again after restore().
C9_KeepGlobRecovered ==
    \A t \in Tasks :
        Restored(t) =>
            \A p \in instances[task[t].inst].keep :
                task[t].was[1][p] # Absent => fs[p] = task[t].was[1][p]

\* C9 witness: a kept file outside the write-plan was overwritten by an
\* outside program while the instance was enabled, and restore() recovered it.
C9_Witness ==
    \E t \in Tasks :
        /\ Restored(t)
        /\ \E p \in instances[task[t].inst].keep \ PlanPaths(task[t].inst) :
              /\ task[t].was[1][p] = Orig
              /\ task[t].fs0[p] = Ext
              /\ fs[p] = Orig

\* C10: a file that matches a cleanup glob and was absent at enable() is
\* absent after restore().
C10_CleanupGlobRemoved ==
    \A t \in Tasks :
        Restored(t) =>
            \A p \in instances[task[t].inst].cleanup :
                task[t].was[1][p] = Absent => fs[p] = Absent

\* C10 witness: a file matching a cleanup glob outside the write-plan was
\* created by an outside program while the instance was enabled, and
\* restore() removed it.
C10_Witness ==
    \E t \in Tasks :
        /\ Restored(t)
        /\ \E p \in instances[task[t].inst].cleanup \ PlanPaths(task[t].inst) :
              /\ task[t].was[1][p] = Absent
              /\ task[t].fs0[p] = Ext
              /\ fs[p] = Absent

\* An enable() that resolved with a new enabled object.
Enabled(t) == Done(t, "enable") /\ task[t].res = "ok"

\* What enable() and restore() do with the files of the set ps(i) that match
\* the cleanup globs of instance i and exist at enable(): enable() archives
\* them all and leaves those in ps(i) as they are, and after restore() they
\* all have their enable()-time content.
CleanupMatchesKept(ps(_)) ==
    \A t \in Tasks :
        LET i == task[t].inst
            id == task[t].id
        IN /\ Enabled(t) =>
                \A p \in instances[i].cleanup :
                    pre[id][p] # Absent =>
                        /\ tarData[id][p] = pre[id][p]
                        /\ p \in ps(i) => fs[p] = pre[id][p]
           /\ Restored(t) =>
                \A p \in instances[i].cleanup :
                    task[t].was[1][p] # Absent => fs[p] = task[t].was[1][p]

AllPaths(i) == Paths
OutsidePlan(i) == Paths \ PlanPaths(i)

\* C11 as stated: a file that matches a cleanup glob and exists at enable()
\* is left unchanged by enable() and is in the backup, and after restore() it
\* has its enable()-time content.
C11_CleanupMatchUntouched == CleanupMatchesKept(AllPaths)

\* C11 as amended: a file that matches a cleanup glob and exists at enable()
\* is in the backup and, unless the write-plan names it too, is left
\* unchanged by enable(); after restore() it has its enable()-time content.
C11_CleanupMatchBackedUp == CleanupMatchesKept(OutsidePlan)

\* C11 witness: a file outside the write-plan that matches a cleanup glob
\* existed at enable(), was changed from outside while the instance was
\* enabled, and restore() brought its enable()-time content back.
C11_Witness ==
    \E t \in Tasks :
        /\ Restored(t)
        /\ \E p \in instances[task[t].inst].cleanup \ PlanPaths(task[t].inst) :
              /\ task[t].was[1][p] = Orig
              /\ task[t].fs0[p] # Orig
              /\ fs[p] = Orig

\* A cleanup() on the handle of an instance that is enabled has resolved.
CleanedUp(t) == Done(t, "cleanup") /\ task[t].arg \in Range(task[t].stack0)

\* C12: cleanup() on an enabled handle deletes the files that match the
\* cleanup globs and changes nothing else: every other file is as it was,
\* the backup still exists with the enable()-time content of what it
\* archived, the instance is still enabled and the lock stack is the same; a
\* restore() that follows still recovers the enable()-time state of the
\* write-plan, the keep matches and the cleanup matches.
C12_CleanupFrame ==
    \A t \in Tasks :
        LET i == task[t].inst
            id == task[t].arg
        IN /\ CleanedUp(t) =>
                /\ task[t].res = "ok"
                /\ \A p \in Paths :
                      fs[p] = IF p \in instances[i].cleanup THEN Absent
                              ELSE task[t].fs0[p]
                /\ stack = task[t].stack0
                /\ Range(stack) \subseteq leftovers
                /\ \A p \in Paths :
                      tarData[id][p] # None => tarData[id][p] = pre[id][p]
                /\ \A p \in PlanPaths(i) \cup instances[i].keep :
                      pre[id][p] # Absent => tarData[id][p] = pre[id][p]
                /\ ~isDisabled[i]
                /\ enabled[i] = id
           /\ Restored(t) =>
                \A p \in PlanPaths(i) \cup instances[i].keep \cup instances[i].cleanup :
                    p \in PlanPaths(i) \cup instances[i].cleanup
                    \/ task[t].was[1][p] # Absent
                    => fs[p] = task[t].was[1][p]

\* C12 witness: cleanup() on an enabled handle has deleted a file matching
\* the cleanup globs while a file the instance wrote is still in place.
C12_Witness ==
    \E t \in Tasks :
        /\ CleanedUp(t)
        /\ \E p \in instances[task[t].inst].cleanup :
              task[t].fs0[p] # Absent /\ fs[p] = Absent
        /\ \E q \in PlanPaths(task[t].inst) \ instances[task[t].inst].cleanup :
              fs[q] = W(task[t].inst)

\* An enable() of a disabled instance has rejected.
WriteFailed(t) == Done(t, "enable") /\ task[t].arg = 0 /\ task[t].res # "ok"

\* C13: when a write of the write-plan fails during enable(), the doRestore
\* of the new id runs exactly once, inside the critical section of the
\* enable body; enable() then rejects with the write error, the instance is
\* disabled, it is not on the lock stack and its backup is deleted.
C13_WriteFailureRecovers ==
    \A t \in Tasks :
        /\ task[t].recover /\ InBody(t) => lockq # <<>> /\ Head(lockq) = t
        /\ WriteFailed(t) =>
              /\ task[t].res = "WriteError"
              /\ task[t].log = <<task[t].id>>
              /\ isDisabled[task[t].inst]
              /\ stack = task[t].stack0
              /\ task[t].id \notin Range(stack)
              /\ task[t].id \notin leftovers
              /\ task[t].id \notin returned

\* C13 witness: enable() has rejected with the write error after its doRestore
\* ran, and a write-plan path that was missing before is absent.
C13_Witness ==
    \E t \in Tasks :
        /\ WriteFailed(t)
        /\ task[t].res = "WriteError"
        /\ overlay[task[t].id] = "restored"
        /\ \E p \in PlanPaths(task[t].inst) : task[t].was[1][p] = Absent /\ fs[p] = Absent

\* A restore() on an instance that has never been enabled has settled.
RestoredUnused(t) == Done(t, "restore") /\ task[t].arg = 0

\* C14: restore() on an instance that has never been enabled resolves and
\* changes nothing: no doRestore runs, the filesystem and the lock stack are
\* as at the call, and the backups are those of the stacked instances.
C14_RestoreBeforeEnable ==
    \A t \in Tasks :
        RestoredUnused(t) =>
            /\ task[t].res = "ok"
            /\ task[t].log = <<>>
            /\ fs = task[t].fs0
            /\ stack = task[t].stack0
            /\ leftovers = Range(stack)
            /\ isDisabled[task[t].inst]
            /\ enabled[task[t].inst] = 0

\* C14 witness: restore() on a never enabled instance has resolved while
\* another instance is enabled and a file matching its cleanup globs exists.
C14_Witness ==
    \E t \in Tasks :
        /\ RestoredUnused(t)
        /\ task[t].res = "ok"
        /\ stack # <<>>
        /\ \E p \in instances[task[t].inst].cleanup : fs[p] # Absent

\* The handles of instance i that have been restored.
Spent(i) == {id \in returned : handle[id].inst = i /\ overlay[id] = "restored"}

\* An enable() has settled on an instance that had been enabled and restored
\* before, without a write failure and without running a doRestore (so the
\* instance was not enabled at the call).
ReEnabled(t) ==
    /\ Done(t, "enable")
    /\ ~task[t].recover
    /\ task[t].log = <<>>
    /\ Spent(task[t].inst) \ {task[t].id} # {}

\* C15: an instance that was enabled and restored can be enabled again: the
\* second enable() resolves with a new id whose backup exists, the
\* write-plan is written and the instance is enabled on top of the stack;
\* the restore() of the second handle again leaves the write-plan paths as
\* that enable() found them and removes its backup.
C15_EnableAgain ==
    \A t \in Tasks :
        LET i == task[t].inst
            id == task[t].id
        IN /\ ReEnabled(t) =>
                /\ task[t].res = "ok"
                /\ id \in Ids \ Spent(i)
                /\ id \in leftovers
                /\ stack = Append(task[t].stack0, id)
                /\ enabled[i] = id /\ ~isDisabled[i]
                /\ \A p \in PlanPaths(i) : fs[p] = instances[i].toUpdate[p]
           /\ Restored(t) /\ Spent(i) \ {task[t].arg} # {} =>
                /\ task[t].arg \notin leftovers
                /\ isDisabled[i]
                /\ stack = Front(task[t].stack0)
                /\ \A p \in PlanPaths(i) : fs[p] = task[t].was[1][p]

\* C15 witness: the handle of a second enable() of the same instance has
\* been restored, and a path its write-plan created both times is gone.
C15_Witness ==
    \E t \in Tasks :
        /\ Restored(t)
        /\ Spent(task[t].inst) \ {task[t].arg} # {}
        /\ \E p \in PlanPaths(task[t].inst) :
              task[t].was[1][p] = Absent /\ fs[p] = Absent

\* ------------------------------------------- statements on directory specs
\* The definitions a literal makes, in the order they are written: each key
\* defines the path it resolves to, inside the directory it is written in,
\* as a file or as a directory; size is the number of definitions written
\* inside a directory, atRoot tells that the key resolves to the virtual root
\* of the directory it is written in.
RECURSIVE Defs(_, _)
Defs(lit, parent) ==
    IF lit = <<>> THEN <<>>
    ELSE LET x == Head(lit)
             p == parent \o relPath(x.k)
             inside == IF isDirectory(x.v) THEN Defs(x.v.e, p) ELSE <<>>
         IN <<[p |-> p, isDir |-> isDirectory(x.v), c |-> x.v.c,
               size |-> Len(inside), atRoot |-> relPath(x.k) = <<>>]>>
            \o inside \o Defs(Tail(lit), parent)

IsPrefix(a, b) == Len(a) <= Len(b) /\ SubSeq(b, 1, Len(a)) = a
Under(a, b) == IsPrefix(b, a) /\ a # b

\* The values a normalized directory holds for path p, reading each of its
\* keys as the path it resolves to.
RECURSIVE ValuesAt(_, _)
ValuesAt(tree, p) ==
    UNION {LET q == relPath(tree[n].k)
           IN IF q = p THEN {tree[n].v}
              ELSE IF Under(p, q) /\ isDirectory(tree[n].v)
              THEN ValuesAt(tree[n].v.e, SubSeq(p, Len(q) + 1, Len(p)))
              ELSE {} : n \in 1..Len(tree)}

\* The paths a flattened directory has beneath path p.
Beneath(flat, p) == {flat[n].k : n \in {m \in 1..Len(flat) : Under(Tail(flat[m].k), p)}}

\* The file at path p in what the call returned: dir(root) has exactly this
\* file at p, flatten(root) and the write-plan have it under the key p.
Gives(p, c) ==
    IF result.op = "dir" THEN ValuesAt(result.e, p) = {File(c)}
    ELSE Has(result.e, <<"">> \o p) /\ Get(result.e, <<"">> \o p) = File(c)

\* Path p is defined by two or more keys of root, all with file values, and
\* no key defines a file above p or anything beneath p.
OnlyFiles(p) ==
    LET ds == Defs(root, <<>>)
        at == {n \in 1..Len(ds) : ds[n].p = p}
    IN /\ Cardinality(at) >= 2
       /\ \A n \in 1..Len(ds) :
             /\ ds[n].p = p => ~ds[n].isDir
             /\ ~Under(ds[n].p, p)
             /\ Under(p, ds[n].p) => ds[n].isDir
LastAt(p) ==
    LET ds == Defs(root, <<>>)
    IN ds[CHOOSE n \in 1..Len(ds) :
             ds[n].p = p /\ \A m \in n + 1..Len(ds) : ds[m].p # p]
DefPaths == {Defs(root, <<>>)[n].p : n \in 1..Len(Defs(root, <<>>))}

\* C18: last write wins: when two or more keys of a directory spec, at any
\* depth and in any spelling, resolve to the same path with file values, dir
\* and flatten give that path the value of the key written last.
C18_LastWriteWins ==
    result.op \in {"dir", "flatten"} =>
        \A p \in DefPaths : OnlyFiles(p) => result.ok /\ Gives(p, LastAt(p).c)

\* No key of the literal resolves to its own directory with a file value
\* (dir and flatten throw DirectoryIsInvalid on such a literal).
RECURSIVE IsValid(_)
IsValid(lit) ==
    \A n \in 1..Len(lit) :
        IF isDirectory(lit[n].v) THEN IsValid(lit[n].v.e)
        ELSE relPath(lit[n].k) # <<>>

\* Definitions m and n are about the same place: one's path is the other's
\* or lies beneath it.
Touches(ds, m, n) == IsPrefix(ds[m].p, ds[n].p) \/ IsPrefix(ds[n].p, ds[m].p)

\* Path p is defined as a file by one key and as a directory by another, and
\* no key defines a file above it.
ShapeConflict(p) ==
    LET ds == Defs(root, <<>>)
    IN /\ \E n \in 1..Len(ds) : ds[n].p = p /\ ~ds[n].isDir
       /\ \E n \in 1..Len(ds) : ds[n].p = p /\ ds[n].isDir
       /\ \A n \in 1..Len(ds) : Under(p, ds[n].p) => ds[n].isDir

\* C19: when a path is defined once as a file and once as a directory, the
\* later definition's shape wins entirely: with the file later, flatten has
\* the path as a file and nothing beneath it; with the directory later,
\* flatten has the directory's files and not the file.
C19_LaterShapeWins ==
    result.op = "flatten" /\ IsValid(root) =>
        LET ds == Defs(root, <<>>)
        IN \A p \in DefPaths : ShapeConflict(p) =>
              LET n == CHOOSE x \in 1..Len(ds) :
                          ds[x].p = p /\ \A y \in x + 1..Len(ds) : ds[y].p # p
              IN /\ result.ok
                 /\ ~ds[n].isDir /\ (\A y \in n + 1..Len(ds) : ~Under(ds[y].p, p)) =>
                       /\ Has(result.e, <<"">> \o p)
                       /\ Beneath(result.e, p) = {}
                 /\ ds[n].isDir =>
                       /\ ~Has(result.e, <<"">> \o p)
                       /\ \A m \in n + 1..n + ds[n].size :
                             /\ ~ds[m].isDir
                             /\ \A y \in m + 1..Len(ds) :
                                   Touches(ds, m, y) => ds[y].p = ds[m].p /\ ~ds[y].isDir
                             => Has(result.e, <<"">> \o ds[m].p)

\* Two or more keys define path p as a directory, and no key defines a file
\* at p or above it.
Merged(p) ==
    LET ds == Defs(root, <<>>)
    IN /\ Cardinality({n \in 1..Len(ds) : ds[n].p = p}) >= 2
       /\ \A n \in 1..Len(ds) : IsPrefix(ds[n].p, p) => ds[n].isDir

\* Path q is defined as a file, and by nothing else.
FileOnly(q) ==
    LET ds == Defs(root, <<>>)
    IN \A n \in 1..Len(ds) :
          /\ ds[n].p = q => ~ds[n].isDir
          /\ ~Under(ds[n].p, q)

\* C20: when two keys resolve to the same path and both values are
\* directories, the result has at that path the entries of both directories,
\* the later one winning for an entry of both; this holds at any depth.
C20_DirectoriesMerge ==
    result.op \in {"dir", "flatten"} /\ IsValid(root) =>
        \A p \in DefPaths : Merged(p) =>
            \A q \in DefPaths : Under(q, p) /\ FileOnly(q) =>
                result.ok /\ Gives(q, LastAt(q).c)

\* The paths that flatten gives both defaults.filesystem and the instance's
\* spec.
DefinedByBoth ==
    LET d == flatten(Object(conf))
        i == flatten(Object(root))
    IN IF d.ok /\ i.ok
       THEN {d.e[n].k : n \in 1..Len(d.e)} \cap {i.e[n].k : n \in 1..Len(i.e)}
       ELSE {}

\* C16: the write-plan is the flattened default spec overlaid with the
\* instance's spec: a path defined by both has the instance's entry in the
\* write-plan.
C16_InstanceOverridesDefault ==
    result.op = "build" =>
        \A k \in DefinedByBoth :
            /\ result.ok
            /\ Has(result.e, k)
            /\ Get(result.e, k) = Get(flatten(Object(root)).e, k)

\* C17: with rootdir other than '/', every path enable() and restore() probe,
\* pack, write or delete lies under rootdir, and a write-plan path is probed
\* and written at rootdir joined with it.
C17_UnderRootdir ==
    rootdir # <<>> =>
        /\ \A x \in touched : IsPrefix(rootdir, x.path)
        /\ result.op = "restored" =>
              \A k \in PlanKeys :
                  /\ [op |-> "access", path |-> rootdir \o Tail(k)] \in touched
                  /\ [op |-> "write", path |-> rootdir \o Tail(k)] \in touched

\* No two keys of the literal define the same path, other than the virtual
\* root of a directory, and none defines a path beneath a file.
Separate ==
    LET ds == Defs(root, <<>>)
    IN \A m, n \in 1..Len(ds) :
          /\ m # n /\ ds[m].p = ds[n].p => ds[m].atRoot \/ ds[n].atRoot
          /\ ~ds[m].isDir => ~Under(ds[n].p, ds[m].p)

\* The entries written under virtual-root keys are where the enclosing level
\* has them: every file of a literal whose keys define separate paths is in
\* the result at the path of its enclosing directories that are not the
\* virtual root.
MergedIntoEnclosing ==
    IsValid(root) /\ Separate =>
        /\ result.ok
        /\ \A p \in DefPaths : ~LastAt(p).isDir => Gives(p, LastAt(p).c)

\* C21: a key that resolves to the virtual root, at any nesting level,
\* merges the entries of its directory into the enclosing level, so dir({})
\* and dir({'.': {}}) are both {}; with a file value at such a key dir,
\* flatten and build throw DirectoryIsInvalid.
C21_VirtualRootMerges ==
    result.op # "none" =>
        /\ root = <<>> \/ root = <<[k |-> <<".">>, v |-> Directory(<<>>)]>> =>
              result.ok /\ result.e = <<>>
        /\ ~IsValid(root) => ~result.ok
        /\ MergedIntoEnclosing

\* C22: for every directory spec flatten accepts, the keys of the result are
\* pairwise distinct absolute paths, and flattening the result again returns
\* the same result.
Absolute(k) == k # <<>> /\ Head(k) = "" /\ Tail(k) = relPath(Tail(k))
Again == flatten(result.e)
C22_FlattenIdempotent ==
    result.op = "flatten" /\ result.ok =>
        /\ \A n \in 1..Len(result.e) : Absolute(result.e[n].k)
        /\ \A m, n \in 1..Len(result.e) :
              m # n => relPath(result.e[m].k) # relPath(result.e[n].k)
        /\ Again.ok
        /\ Again.e = result.e

\* C23: for every directory spec dir accepts, every key of the result, at
\* every level, is a single non-empty path segment other than '.' and '..',
\* and every value is a file or a directory of the same form.
RECURSIVE Normal(_)
Normal(e) ==
    \A n \in 1..Len(e) :
        /\ Len(e[n].k) = 1
        /\ e[n].k[1] \notin {"", ".", ".."}
        /\ isDirectory(e[n].v) => Normal(e[n].v.e)
C23_SingleSegmentKeys ==
    result.op = "dir" /\ result.ok => Normal(result.e)

\* C24: testfs.from resolves a relative source path against defaults.basedir
\* for both input forms, the string and the object with from; it keeps an
\* absolute source path unchanged; the file read is the one at that path,
\* whatever rootdir and the working directory are.
C24_ResolvedAgainstBasedir ==
    ref # NoRef =>
        /\ ref.from = IF isAbsolute(given.from) THEN given.from
                      ELSE <<"">> \o resolve(base, given.from)
        /\ \A t \in touched :
              t.op = "readFile" => t.path = resolve(base, given.from)

\* C25: whenever leftovers() returns a backup, beforeAll fails with an error,
\* the global testfs configuration is still the one it started with, and
\* every backup found is still in the temp directory; beforeAll reaches
\* testfs.config only when leftovers() found nothing.
C25_LeftoversAbort ==
    /\ hook.crumbs # {} =>
          /\ hook.pc = "failed" /\ hook.error = "FoundLeftovers"
          /\ defaults = NoConf /\ base = processCwd
          /\ hook.crumbs \subseteq leftovers
    /\ hook.pc \in {"config", "done"} => leftovers = {}
C25_Witness ==
    hook.pc = "failed" /\ hook.crumbs # {} /\ hook.crumbs = leftovers

\* C26: whenever a restore body that lock.release started is at work for an
\* enabled object, that object is on top of the lock stack.
RestorePcs == {"r_extract", "r_unlink", "r_mark", "r_hung"}
InRestoreBody(t) == task[t].pc \in RestorePcs /\ ~task[t].recover
C26_BodyOnlyOnTop ==
    \A t \in Tasks :
        InRestoreBody(t) => stack # <<>> /\ Top(stack) = task[t].id

\* C27: the restore body runs at most once for an enabled object: no restore
\* body that lock.release started is at work for an object whose restore has
\* already completed; stated for the runs in which no write fails and the
\* lock never times out.
C27_BodyAtMostOnce ==
    faults = 0 =>
        \A t \in Tasks :
            InRestoreBody(t) => overlay[task[t].id] # "restored"

\* C28: an instance is on the lock stack at most once and owns at most one
\* backup, however its enable() calls overlap; stated for the runs in which
\* no write fails and the lock never times out.
OnStack(i) == {n \in 1..Len(stack) : handle[stack[n]].inst = i}
Backups(i) == {id \in tars : handle[id].inst = i}
C28_EnabledAtMostOnce ==
    faults = 0 =>
        \A i \in Inst :
            Cardinality(OnStack(i)) <= 1 /\ Cardinality(Backups(i)) <= 1

\* C29: every step of testfs that changes the filesystem is made by the
\* caller that holds the lock; stated for the runs in which no write fails
\* and the lock never times out.
C29_MutationsUnderLock ==
    [][faults = 0 /\ fs' # fs /\ extCount' = extCount =>
          lockq # <<>> /\ task'[Head(lockq)] # task[Head(lockq)]]_vars

\* C30: a restore body that lock.release started works in this order: it
\* deletes the cleanup matches, extracts the backup, removes the backup file
\* and marks the instance disabled, and then lock.release pops the stack.  At
\* each point of the body the earlier steps are done and the later ones are
\* not.
C30_RestoreOrder ==
    \A t \in Tasks :
        LET r == task[t]
            id == r.id
            i == handle[id].inst
        IN r.pc \in {"r_extract", "r_unlink", "r_mark", "r_pop"} /\ ~r.recover =>
              /\ fg(fs, handle[id].cglobs) = {} \/ r.pc # "r_extract"
              /\ overlay[id] \in {"extracted", "restored"} <=> r.pc # "r_extract"
              /\ id \in tars <=> r.pc \in {"r_extract", "r_unlink"}
              /\ isDisabled[i] <=> r.pc = "r_pop"
              /\ stack # <<>> /\ Top(stack) = id
C30_Witness ==
    \E t \in Tasks :
        /\ task[t].pc = "r_pop" /\ task[t].op = "restore" /\ ~task[t].inDrain
        /\ task[t].id = task[t].arg
        /\ Top(stack) = task[t].id
        /\ \E p \in Paths : fs[p] # task[t].fs0[p]

\* C31: within one enable(), when the first directory is created or the first
\* file written, every path of the write-plan has been probed and every
\* existing one packed; and when a file is written, the directory it is in
\* has been created.
Did(op, path) == [op |-> op, path |-> path] \in touched
C31_BackupBeforeWrites ==
    /\ (\E x \in touched : x.op \in {"mkdir", "write"}) =>
          /\ result.op \in {"dirs", "replaced", "restored"}
          /\ \A l \in lookup :
                /\ Did("access", resolve(rootdir, l.filename))
                /\ l.exists => Did("pack", resolve(rootdir, l.filename))
    /\ \A x \in touched :
          x.op = "write" /\ Len(x.path) > 1 => Did("mkdir", Front(x.path))
C31_Witness ==
    /\ result.op = "replaced"
    /\ \E x \in touched : x.op = "write" /\ Len(x.path) > 1
    /\ \E l \in lookup : l.exists
    /\ \E l \in lookup : ~l.exists

\* C32: when enable() or restore() rejects because a timeout of the lock
\* elapsed, the lock stack is empty and every instance is disabled at the
\* moment the caller sees the error.
C32_TimeoutDrains ==
    \A t \in Tasks :
        task[t].pc = "done" /\ task[t].res = "TimeoutError" =>
            stack = <<>> /\ \A i \in Inst : isDisabled[i]

\* C33: whenever no call is in progress, the lock stack holds exactly the
\* instances that are enabled, each once, and its ids are pairwise distinct;
\* stated for the runs in which no write fails and the lock never times out.
Quiet == lockq = <<>> /\ inflight = {} /\ \A t \in Tasks : task[t].pc \in {"idle", "done"}
C33_StackIsEnabledSet ==
    faults = 0 /\ Quiet =>
        /\ \A i \in Inst : Cardinality(OnStack(i)) = IF isDisabled[i] THEN 0 ELSE 1
        /\ \A m, n \in 1..Len(stack) : m # n => stack[m] # stack[n]

\* C34: the pop at the end of lock.release removes the enabled object whose
\* restore body has just completed: when a caller is about to pop, that
\* object is on top of the stack; stated for the runs in which no write
\* fails and the lock never times out.
C34_PopsOwnInstance ==
    faults = 0 =>
        \A t \in Tasks :
            task[t].pc = "r_pop" => stack # <<>> /\ Top(stack) = task[t].id

\* C35: the global restore terminates: once testfs.restore() has been called,
\* its loop comes to an end, under an event loop that runs every continuation
\* and completes every file operation.
C35_RestoreAllTerminates ==
    \A t \in Tasks :
        (task[t].op = "restoreAll" /\ task[t].pc # "idle") ~> (task[t].pc = "done")


\* C36: the assertion `stack.length > 0` at the start of lock.release never
\* fails: no call ends with the AssertionError, provided no body timed out.
C36_AssertHolds ==
    faults = 0 => \A t \in Tasks : task[t].res # "AssertionError"


\* C37: once enable() has rejected because a file write failed and its
\* recovery doRestore has completed, every path of the write-plan is as it
\* was before the enable(), whatever the sibling writes still in flight do.
C37_RecoveryRestoresPlan ==
    \A t \in Tasks :
        WriteFailed(t) /\ task[t].res = "WriteError" =>
            \A p \in PlanPaths(task[t].inst) : fs[p] = task[t].fs0[p]


\* C38: whenever the lock stack is empty and no operation is in progress, no
\* backup made by this process remains in the temp directory.
C38_NoBackupWhenIdle == Quiet /\ stack = <<>> => leftovers = {}


\* C39: for every directory spec flatten accepts, no key of the result is a
\* proper ancestor path of another key: the result never has a file at a
\* path together with an entry beneath that path.
C39_NoAncestorKeys ==
    result.op = "flatten" /\ result.ok =>
        \A m, n \in 1..Len(result.e) :
            ~Under(relPath(result.e[m].k), relPath(result.e[n].k))


\* C40: the defaults never change how the entries of an instance resolve
\* against each other: every path flatten(instance spec) defines has the
\* same entry in the write-plan built from the defaults and the instance spec.
Own == flatten(Object(root))
C40_DefaultsKeepOwnEntries ==
    result.op = "build" /\ Own.ok =>
        /\ result.ok
        /\ \A n \in 1..Len(Own.e) :
              /\ Has(result.e, Own.e[n].k)
              /\ Get(result.e, Own.e[n].k) = Own.e[n].v

====
